---- MODULE Spec2Model ----
(***************************************************************************)
(* Model of the invoice Field Extraction Engine                            *)
(* (src/app/utils/data_extractor.py).                                      *)
(*                                                                         *)
(* A Python str is a sequence of one-character strings.  The value None    *)
(* standing where a str is expected is the sequence <<"None">>, whose only *)
(* element is not a character.  A regular expression is a sequence of      *)
(* items (character class + greedy quantifier, or the zero-width \b) and   *)
(* is matched with Python's backtracking semantics.                        *)
(***************************************************************************)
EXTENDS Integers, Sequences, FiniteSets, TLC

VARIABLES
    pc,       \* "call" while the call is under way, "done" once it has returned
    call,     \* the call: a record naming the function (fn) and its arguments
    ret,      \* what the call returned
    prev,     \* the call made before this one, with its result (<<>> when none)
    tasks,    \* extract_data: one record per document, the state of its task
    finished, \* extract_data: the documents in the order their tasks ended
    processing_tasks, \* main.py: the dict task id -> ProcessingStatus
    direct_results,   \* main.py: the dict task id -> result of the processing
    jobs      \* main.py: task id -> where the request or background task stands

\* the state of the web layer
web == <<processing_tasks, direct_results, jobs>>

vars == <<pc, call, ret, prev, tasks, finished, web>>

(***************************************************************************)
(* Characters and strings                                                  *)
(***************************************************************************)
NoneStr == <<"None">>

DigitChars == <<"0", "1", "2", "3", "4", "5", "6", "7", "8", "9">>

LowerLetters == <<"a", "b", "c", "d", "e", "f", "g", "h", "i", "j", "k", "l", "m",
                  "n", "o", "p", "q", "r", "s", "t", "u", "v", "w", "x", "y", "z">>

UpperLetters == <<"A", "B", "C", "D", "E", "F", "G", "H", "I", "J", "K", "L", "M",
                  "N", "O", "P", "Q", "R", "S", "T", "U", "V", "W", "X", "Y", "Z">>

Range(s) == {s[i] : i \in 1..Len(s)}

Digit == Range(DigitChars)
LowerAlpha == Range(LowerLetters)
UpperAlpha == Range(UpperLetters)
Alpha == LowerAlpha \cup UpperAlpha
WordChar == Alpha \cup Digit \cup {"_"}
Space == {" ", "\n", "\t"}

\* str.lower() on one character
Lower(c) ==
    IF c \in UpperAlpha
    THEN LowerLetters[CHOOSE i \in 1..Len(UpperLetters) : UpperLetters[i] = c]
    ELSE c

\* str.upper() on one character
Upper(c) ==
    IF c \in LowerAlpha
    THEN UpperLetters[CHOOSE i \in 1..Len(LowerLetters) : LowerLetters[i] = c]
    ELSE c

\* int() of one decimal digit
DigitVal(c) == (CHOOSE i \in 1..Len(DigitChars) : DigitChars[i] = c) - 1

\* int() of a non-empty run of decimal digits
RECURSIVE ToInt(_)
ToInt(s) ==
    IF Len(s) = 0 THEN 0
    ELSE 10 * ToInt(SubSeq(s, 1, Len(s) - 1)) + DigitVal(s[Len(s)])

\* the characters of s that satisfy Keep, in order
RECURSIVE Filter(_, _)
Filter(s, keep) ==
    IF Len(s) = 0 THEN <<>>
    ELSE (IF s[1] \in keep THEN <<s[1]>> ELSE <<>>) \o Filter(Tail(s), keep)

\* str.strip(): drop leading and trailing whitespace
RECURSIVE LStrip(_)
LStrip(s) == IF Len(s) > 0 /\ s[1] \in Space THEN LStrip(Tail(s)) ELSE s

RECURSIVE RStrip(_)
RStrip(s) ==
    IF Len(s) > 0 /\ s[Len(s)] \in Space THEN RStrip(SubSeq(s, 1, Len(s) - 1)) ELSE s

Strip(s) == RStrip(LStrip(s))

\* sep.join(parts)
RECURSIVE Join(_, _)
Join(sep, parts) ==
    IF Len(parts) = 0 THEN <<>>
    ELSE IF Len(parts) = 1 THEN parts[1]
    ELSE parts[1] \o sep \o Join(sep, Tail(parts))

(***************************************************************************)
(* Regular expressions (module re)                                         *)
(*                                                                         *)
(* An item is [k, s, lo, hi]: k = "in" matches a character of the set s,   *)
(* k = "out" one not in s, each repeated lo..hi times greedily (hi = -1:   *)
(* no upper bound); k = "wb" is \b.  A literal under (?i) is an "in" item  *)
(* of both cases of its letter.  A position is the index of the next       *)
(* character to read.                                                      *)
(***************************************************************************)
Rep(k, s, lo, hi) == [k |-> k, s |-> s, lo |-> lo, hi |-> hi]
In(s, lo, hi) == Rep("in", s, lo, hi)
Out(s, lo, hi) == Rep("out", s, lo, hi)
WB == <<Rep("wb", {}, 0, 0)>>
\* a literal word under (?i)
LitCI(w) == [i \in 1..Len(w) |-> Rep("in", {Lower(w[i]), Upper(w[i])}, 1, 1)]
Accepts(item, c) ==
    CASE item.k = "in" -> c \in item.s
      [] item.k = "out" -> c \notin item.s
      [] OTHER -> FALSE

IsWordAt(text, p) == p >= 1 /\ p <= Len(text) /\ text[p] \in WordChar

AtWordBoundary(text, pos) == IsWordAt(text, pos - 1) # IsWordAt(text, pos)

\* how many characters from pos on the item accepts, at most its hi
RECURSIVE RunLen(_, _, _, _)
RunLen(item, text, pos, n) ==
    IF pos + n <= Len(text) /\ (item.hi = -1 \/ n < item.hi)
       /\ Accepts(item, text[pos + n])
    THEN RunLen(item, text, pos, n + 1)
    ELSE n

NoEnds == <<-1>>

\* Match items i.. of re at pos: the end position of each item, or NoEnds.
\* A quantified item takes the longest run first and gives back one
\* character at a time while the rest fails to match.
\* the ends of a match whose first item ends at pos and whose rest ends at
\* `rest`
EndsWith(pos, rest) == IF rest = NoEnds THEN NoEnds ELSE <<pos>> \o rest

RECURSIVE MatchFrom(_, _, _, _)
RECURSIVE Backtrack(_, _, _, _, _)
RECURSIVE BacktrackOr(_, _, _, _, _, _)
MatchFrom(re, i, text, pos) ==
    IF i > Len(re) THEN <<>>
    ELSE IF re[i].k = "wb"
    THEN IF AtWordBoundary(text, pos)
         THEN EndsWith(pos, MatchFrom(re, i + 1, text, pos))
         ELSE NoEnds
    ELSE Backtrack(re, i, text, pos, RunLen(re[i], text, pos, 0))

\* item i takes n characters; when the rest does not match after them, one
\* fewer
Backtrack(re, i, text, pos, n) ==
    IF n < re[i].lo THEN NoEnds
    ELSE BacktrackOr(re, i, text, pos, n, MatchFrom(re, i + 1, text, pos + n))

BacktrackOr(re, i, text, pos, n, rest) ==
    IF rest = NoEnds THEN Backtrack(re, i, text, pos, n - 1)
    ELSE <<pos + n>> \o rest

NoMatch == [start |-> 0, ends |-> <<>>]

\* re.search from position `from`: the leftmost match
RECURSIVE SearchFrom(_, _, _)
RECURSIVE SearchOr(_, _, _, _)
SearchFrom(re, text, from) ==
    IF from > Len(text) + 1 THEN NoMatch
    ELSE SearchOr(re, text, from, MatchFrom(re, 1, text, from))

SearchOr(re, text, from, ends) ==
    IF ends = NoEnds THEN SearchFrom(re, text, from + 1)
    ELSE [start |-> from, ends |-> ends]

\* every item that must read a character finds one it accepts among `chars`;
\* a text without such a character holds no match of re
Feasible(re, chars) ==
    \A i \in 1..Len(re) :
      (re[i].k = "in" /\ re[i].lo >= 1) => re[i].s \cap chars # {}

Search(re, text) ==
    IF Feasible(re, Range(text)) THEN SearchFrom(re, text, 1) ELSE NoMatch

MatchEnd(m) == IF Len(m.ends) = 0 THEN m.start ELSE m.ends[Len(m.ends)]

\* re.finditer: the non-overlapping matches, left to right
RECURSIVE FindIterFrom(_, _, _)
RECURSIVE FindIterNext(_, _, _)
FindIterFrom(re, text, from) == FindIterNext(re, text, SearchFrom(re, text, from))

FindIterNext(re, text, m) ==
    IF m = NoMatch THEN <<>>
    ELSE <<m>> \o FindIterFrom(re, text,
                               IF MatchEnd(m) = m.start THEN m.start + 1
                               ELSE MatchEnd(m))

FindIter(re, text) ==
    IF Feasible(re, Range(text)) THEN FindIterFrom(re, text, 1) ELSE <<>>

\* the text matched by items a..b of the match m
Group(text, m, a, b) ==
    SubSeq(text, IF a = 1 THEN m.start ELSE m.ends[a - 1], m.ends[b] - 1)

\* match.group(0)
Group0(text, m) == SubSeq(text, m.start, MatchEnd(m) - 1)

(***************************************************************************)
(* decimal.Decimal                                                         *)
(*                                                                         *)
(* A result of _parse_decimal is [exc, none, neg, num, scale]: exc names   *)
(* the exception raised ("" when the call returned), none says the value   *)
(* is None, and otherwise the value is (-1)^neg * num / 10^scale.          *)
(***************************************************************************)
NoneDec == [exc |-> "", none |-> TRUE, neg |-> FALSE, num |-> 0, scale |-> 0]
Dec(neg, num, scale) ==
    [exc |-> "", none |-> FALSE, neg |-> neg, num |-> num, scale |-> scale]
RaisedDec(e) == [exc |-> e, none |-> TRUE, neg |-> FALSE, num |-> 0, scale |-> 0]

\* the index of the first c in s, 0 when there is none
RECURSIVE IndexOf(_, _, _)
IndexOf(s, c, i) ==
    IF i > Len(s) THEN 0 ELSE IF s[i] = c THEN i ELSE IndexOf(s, c, i + 1)

\* Decimal(s) for s made of digits, "." and "-": an optional leading sign,
\* then digits with at most one point and at least one digit; anything
\* else raises InvalidOperation.
DecimalOfParts(neg, body, digits, points) ==
    IF Len(digits) >= 1 /\ points <= 1 /\ Len(digits) + points = Len(body)
    THEN Dec(neg, ToInt(digits),
             IF points = 0 THEN 0 ELSE Len(body) - IndexOf(body, ".", 1))
    ELSE RaisedDec("InvalidOperation")

DecimalOfSigned(neg, body) ==
    DecimalOfParts(neg, body, Filter(body, Digit), Len(Filter(body, {"."})))

DecimalOf(s) ==
    IF Len(s) > 0 /\ s[1] = "-" THEN DecimalOfSigned(TRUE, Tail(s))
    ELSE DecimalOfSigned(FALSE, s)

\* the value is below zero
IsNegative(d) == ~d.none /\ d.neg /\ d.num > 0

(***************************************************************************)
(* price_parser.Price.fromstring, the third-party currency-string parser   *)
(* behind _parse_decimal's fallback.  What it makes of a string is the     *)
(* environment's choice `price`: it raises, finds no amount, or finds a    *)
(* zero, positive or negative amount.  It reads an amount only off digits  *)
(* of the string and a negative one only off a minus sign.                 *)
(***************************************************************************)
PriceOutcomes == {"raise", "none", "zero", "positive", "negative"}

MatchedText(s, m) == IF m = NoMatch THEN <<>> ELSE Group0(s, m)

FirstDigitRun(s) == MatchedText(s, Search(<<In(Digit, 1, -1)>>, s))

PriceFromString(s, price) ==
    IF price = "raise" THEN RaisedDec("Exception")
    ELSE IF price = "none" \/ FirstDigitRun(s) = <<>> THEN NoneDec
    ELSE IF price = "zero" THEN Dec(FALSE, 0, 0)
    ELSE Dec(price = "negative" /\ "-" \in Range(s), ToInt(FirstDigitRun(s)), 0)

(***************************************************************************)
(* DataExtractor._parse_decimal                                            *)
(***************************************************************************)
\* Decimal(cleaned), and on InvalidOperation the fallback
DirectOr(direct, fallback) == IF direct.exc = "" THEN direct ELSE fallback

\* the except clauses of the fallback dropped: its failure reaches the caller
PriceAmountUncaught(p) == p

\* Decimal(str(price.amount)) if price.amount else None, and None when the
\* fallback raises
PriceAmount(p) ==
    IF p.exc # "" THEN NoneDec
    ELSE IF p.none \/ p.num = 0 THEN NoneDec
    ELSE p

ParseDecimal(amount_string, price) ==
    IF amount_string = NoneStr \/ Len(amount_string) = 0
       \/ Len(Strip(amount_string)) = 0
    THEN NoneDec
    ELSE DirectOr(DecimalOf(Filter(amount_string, Digit \cup {".", "-"})),
                  PriceAmount(PriceFromString(amount_string, price)))

(***************************************************************************)
(* DataExtractor._extract_totals                                           *)
(***************************************************************************)
\* (?i)<label>[:\s]*\$?([\d,]+\.\d{2})
TotalsPattern(label) ==
    LitCI(label) \o <<In({":"} \cup Space, 0, -1), In({"$"}, 0, 1),
                      In(Digit \cup {","}, 1, -1), In({"."}, 1, 1), In(Digit, 2, 2)>>

\* the amount the match m of TotalsPattern(label) captures, parsed; None
\* when the pattern matched nowhere
CapturedAmount(label, text, m, price) ==
    IF m = NoMatch THEN NoneDec
    ELSE ParseDecimal(Group(text, m, Len(label) + 3, Len(label) + 5), price)

\* re.search(TotalsPattern(label), text) and its group 1 parsed
LabelledAmount(label, text, price) ==
    CapturedAmount(label, text, Search(TotalsPattern(label), text), price)

SubtotalLabel == <<"s", "u", "b", "t", "o", "t", "a", "l">>
TaxLabel == <<"t", "a", "x">>
TotalLabel == <<"t", "o", "t", "a", "l">>

FirstExc(excs) ==
    IF \E i \in 1..Len(excs) : excs[i] # ""
    THEN excs[CHOOSE i \in 1..Len(excs) :
                excs[i] # "" /\ \A j \in 1..(i - 1) : excs[j] = ""]
    ELSE ""

Totals(grand_total, taxes, final_total) ==
    [exc |-> FirstExc(<<grand_total.exc, taxes.exc, final_total.exc>>),
     grand_total |-> grand_total, taxes |-> taxes, final_total |-> final_total]

ExtractTotals(text, price) ==
    Totals(LabelledAmount(SubtotalLabel, text, price),
           LabelledAmount(TaxLabel, text, price),
           LabelledAmount(TotalLabel, text, price))

(***************************************************************************)
(* app.models: Address, Vendor, InvoiceItem, Invoice                       *)
(*                                                                         *)
(* An optional str that is None is NoneStr, an optional Decimal NoneDec,   *)
(* an optional date NoneDate, an optional int NoneInt.                     *)
(***************************************************************************)
NoneDate == [none |-> TRUE, y |-> 0, m |-> 0, d |-> 0]
DateVal(y, m, d) == [none |-> FALSE, y |-> y, m |-> m, d |-> d]
NoneInt == [none |-> TRUE, val |-> 0]
IntVal(n) == [none |-> FALSE, val |-> n]

Address(street, city, state, country, postal_code) ==
    [street |-> street, city |-> city, state |-> state, country |-> country,
     postal_code |-> postal_code]

\* Address(): every field at its default
DefaultAddress == Address(<<>>, <<>>, <<>>, <<>>, <<>>)

Vendor(name, address) == [name |-> name, address |-> address]

InvoiceItem(description, quantity, unit_price, total) ==
    [description |-> description, quantity |-> quantity,
     unit_price |-> unit_price, total |-> total]

Invoice(filename, invoice_number, vendor, invoice_date, grand_total, taxes, final_total, items, pages) ==
    [filename |-> filename, invoice_number |-> invoice_number, vendor |-> vendor,
     invoice_date |-> invoice_date, grand_total |-> grand_total, taxes |-> taxes,
     final_total |-> final_total, items |-> items, pages |-> pages]

\* Invoice(filename=...): every other field at its default
FilenameOnlyInvoice(filename) ==
    Invoice(filename, NoneStr, Vendor(<<>>, DefaultAddress), NoneDate, NoneDec,
            NoneDec, NoneDec, <<>>, 1)

(***************************************************************************)
(* DataExtractor._extract_invoice_number                                   *)
(***************************************************************************)
InvoiceIdChars == Alpha \cup Digit \cup {"-"}

\* the three patterns, each with the index of the item that is its group 1
InvoiceNumberPatterns ==
    << \* (?i)invoice\s*number?[:\s]*([A-Za-z0-9-]{5,})
       LitCI(<<"i", "n", "v", "o", "i", "c", "e">>) \o <<In(Space, 0, -1)>>
         \o LitCI(<<"n", "u", "m", "b", "e">>) \o <<In({"r", "R"}, 0, 1)>>
         \o <<In({":"} \cup Space, 0, -1), In(InvoiceIdChars, 5, -1)>>,
       \* (?i)invoice\s*#[:\s]*([A-Za-z0-9-]{5,})
       LitCI(<<"i", "n", "v", "o", "i", "c", "e">>) \o <<In(Space, 0, -1), In({"#"}, 1, 1)>>
         \o <<In({":"} \cup Space, 0, -1), In(InvoiceIdChars, 5, -1)>>,
       \* (?i)inv[:\s]*([A-Za-z0-9-]{5,})
       LitCI(<<"i", "n", "v">>)
         \o <<In({":"} \cup Space, 0, -1), In(InvoiceIdChars, 5, -1)>> >>

\* pattern after pattern, the first that matches anywhere gives its group 1
RECURSIVE FirstInvoiceNumber(_, _)
RECURSIVE InvoiceNumberOr(_, _, _)
FirstInvoiceNumber(text, i) ==
    IF i > Len(InvoiceNumberPatterns) THEN NoneStr
    ELSE InvoiceNumberOr(text, i, Search(InvoiceNumberPatterns[i], text))

InvoiceNumberOr(text, i, m) ==
    IF m = NoMatch THEN FirstInvoiceNumber(text, i + 1)
    ELSE Group(text, m, Len(InvoiceNumberPatterns[i]), Len(InvoiceNumberPatterns[i]))

ExtractInvoiceNumber(text) == FirstInvoiceNumber(text, 1)

(***************************************************************************)
(* DataExtractor._extract_vendor, DataExtractor._extract_address           *)
(***************************************************************************)
\* text.split('\n'): at least one line, the empty one for the empty text
RECURSIVE SplitLines(_)
RECURSIVE SplitAt(_, _)
SplitLines(text) == SplitAt(text, IndexOf(text, "\n", 1))

\* nl is the index of the first line break, 0 when there is none
SplitAt(text, nl) ==
    IF nl = 0 THEN <<text>>
    ELSE <<SubSeq(text, 1, nl - 1)>> \o SplitLines(SubSeq(text, nl + 1, Len(text)))

\* lines[a:b] with 0-based a and b
Slice(lines, a, b) ==
    SubSeq(lines, a + 1, IF b < Len(lines) THEN b ELSE Len(lines))

\* \b\d{5}(?:-\d{4})?\b : at each start the optional group is tried first
PostalWithPlus4 ==
    WB \o <<In(Digit, 5, 5), In({"-"}, 1, 1), In(Digit, 4, 4)>> \o WB
PostalPlain == WB \o <<In(Digit, 5, 5)>> \o WB

RECURSIVE SearchPostal(_, _)
RECURSIVE PostalOr(_, _, _, _)
SearchPostal(line, from) ==
    IF from > Len(line) + 1 THEN <<>>
    ELSE PostalOr(line, from, MatchFrom(PostalWithPlus4, 1, line, from),
                  MatchFrom(PostalPlain, 1, line, from))

PostalOr(line, from, with_plus4, plain) ==
    IF with_plus4 # NoEnds THEN SubSeq(line, from, with_plus4[Len(with_plus4)] - 1)
    ELSE IF plain # NoEnds THEN SubSeq(line, from, plain[Len(plain)] - 1)
    ELSE SearchPostal(line, from + 1)

\* ([A-Za-z\s]+),\s*([A-Z]{2})
CityStatePattern ==
    <<In(Alpha \cup Space, 1, -1), In({","}, 1, 1), In(Space, 0, -1),
      In(UpperAlpha, 2, 2)>>

\* city and state from the match of CityStatePattern in the second line
AddressOf(street, address_line, city_state) ==
    Address(street,
            IF city_state = NoMatch THEN <<>>
            ELSE Strip(Group(address_line, city_state, 1, 1)),
            IF city_state = NoMatch THEN <<>>
            ELSE Group(address_line, city_state, 4, 4),
            <<>>,
            SearchPostal(address_line, 1))

AddressOfLines(street, address_line) ==
    AddressOf(street, address_line, Search(CityStatePattern, address_line))

\* street is the first line, city, state and postal code are read from the
\* second
LinesAddress(lines) ==
    AddressOfLines(lines[1], IF Len(lines) > 1 THEN lines[2] ELSE <<>>)

ExtractAddress(text) == LinesAddress(SplitLines(text))

\* the name is the first line, the address is read from lines[1:4]
LinesVendor(lines) ==
    Vendor(lines[1],
           ExtractAddress(IF Len(lines) > 1 THEN Join(<<"\n">>, Slice(lines, 1, 4))
                          ELSE <<>>))

ExtractVendor(text) == LinesVendor(SplitLines(text))

(***************************************************************************)
(* Line items: DataExtractor._extract_items and the row loop of            *)
(* DataExtractor._extract_from_docai                                       *)
(***************************************************************************)
\* int(s) of a str: surrounding whitespace and one sign allowed, then
\* digits, single underscores allowed between them; anything else raises
\* ValueError
IntOfDigits(negative, body) ==
    IF /\ Len(body) >= 1
       /\ body[1] \in Digit /\ body[Len(body)] \in Digit
       /\ \A i \in 1..Len(body) : body[i] \in Digit \cup {"_"}
       /\ \A i \in 1..(Len(body) - 1) : ~(body[i] = "_" /\ body[i + 1] = "_")
    THEN [exc |-> "", val |-> IF negative THEN -ToInt(Filter(body, Digit))
                              ELSE ToInt(Filter(body, Digit))]
    ELSE [exc |-> "ValueError", val |-> 0]

IntOfStripped(t) ==
    IF Len(t) > 0 /\ t[1] \in {"-", "+"} THEN IntOfDigits(t[1] = "-", Tail(t))
    ELSE IntOfDigits(FALSE, t)

IntOf(s) == IntOfStripped(Strip(s))

\* One row: [exc, keep, item].  exc is the exception the row's try block
\* lets through ("" when none does); keep says the row became an item.
\* row[i].strip() on a cell that is None raises AttributeError, which the
\* except clause (ValueError, IndexError, InvalidOperation) does not name.
RowCaught == {"ValueError", "IndexError", "InvalidOperation"}

NoItem == InvoiceItem(<<>>, NoneInt, NoneDec, NoneDec)

RowResult(exc, keep, item) == [exc |-> exc, keep |-> keep, item |-> item]

\* int(row[1]) if row[1].strip() else None
Quantity(q) == [exc |-> q.exc, v |-> IF q.exc = "" THEN IntVal(q.val) ELSE NoneInt]

QuantityCell(cell) ==
    IF cell = NoneStr THEN [exc |-> "AttributeError", v |-> NoneInt]
    ELSE IF Len(Strip(cell)) = 0 THEN [exc |-> "", v |-> NoneInt]
    ELSE Quantity(IntOf(cell))

\* self._parse_decimal(row[i]) if row[i].strip() else None
AmountCell(cell, price) ==
    IF cell = NoneStr THEN RaisedDec("AttributeError")
    ELSE IF Len(Strip(cell)) = 0 THEN NoneDec
    ELSE ParseDecimal(cell, price)

\* a row that fails to parse kept as an item with no field set
RowOfCellsPadded(description, quantity, unit_price, total, exc) ==
    IF exc = ""
    THEN RowResult("", TRUE, InvoiceItem(description, quantity.v, unit_price, total))
    ELSE IF exc \in RowCaught THEN RowResult("", TRUE, NoItem)
    ELSE RowResult(exc, FALSE, NoItem)

\* the item of a row, or the row dropped on an exception the except clause
\* names
RowOfCells(description, quantity, unit_price, total, exc) ==
    IF exc = ""
    THEN RowResult("", TRUE, InvoiceItem(description, quantity.v, unit_price, total))
    ELSE IF exc \in RowCaught THEN RowResult("", FALSE, NoItem)
    ELSE RowResult(exc, FALSE, NoItem)

\* the cells are read left to right, so the first failure is the row's
RowOf(description, quantity, unit_price, total) ==
    RowOfCells(description, quantity, unit_price, total,
               FirstExc(<<quantity.exc, unit_price.exc, total.exc>>))

ParseRow(row, price) ==
    IF Len(row) < 4 THEN RowResult("", FALSE, NoItem)
    ELSE RowOf(row[1], QuantityCell(row[2]), AmountCell(row[3], price),
               AmountCell(row[4], price))

\* the rows in order, stopping at the first exception a row lets through
RECURSIVE ParseRows(_, _)
RECURSIVE RowThen(_, _, _)
ParseRows(rows, price) ==
    IF Len(rows) = 0 THEN [exc |-> "", items |-> <<>>]
    ELSE RowThen(ParseRow(rows[1], price), Tail(rows), price)

RowsAfter(r, rest) ==
    [exc |-> rest.exc,
     items |-> IF rest.exc # "" THEN <<>>
               ELSE (IF r.keep THEN <<r.item>> ELSE <<>>) \o rest.items]

RowThen(r, rows, price) ==
    IF r.exc # "" THEN [exc |-> r.exc, items |-> <<>>]
    ELSE RowsAfter(r, ParseRows(rows, price))

\* every row of every table read, whatever the path
RECURSIVE DataRowsWithHeader(_, _)
DataRowsWithHeader(tables, skip_header) ==
    IF Len(tables) = 0 THEN <<>>
    ELSE tables[1] \o DataRowsWithHeader(Tail(tables), skip_header)

\* the rows a path reads, table after table
RECURSIVE DataRows(_, _)
DataRows(tables, skip_header) ==
    IF Len(tables) = 0 THEN <<>>
    ELSE (IF skip_header
          THEN (IF Len(tables[1]) > 1 THEN Tail(tables[1]) ELSE <<>>)
          ELSE tables[1]) \o DataRows(Tail(tables), skip_header)

\* _extract_items: table[1:] of every table
ExtractItems(tables, price) == ParseRows(DataRows(tables, TRUE), price)

\* the row loop of _extract_from_docai: every row of every table
DocaiItems(tables, price) == ParseRows(DataRows(tables, FALSE), price)

(***************************************************************************)
(* datetime.date                                                           *)
(***************************************************************************)
IsLeap(y) == (y % 4 = 0 /\ y % 100 # 0) \/ y % 400 = 0

DaysIn(y, m) ==
    IF m = 2 THEN (IF IsLeap(y) THEN 29 ELSE 28)
    ELSE IF m \in {4, 6, 9, 11} THEN 30 ELSE 31

\* date(y, m, d): [exc, date]; ValueError unless it is a day of the calendar
NewDate(y, m, d) ==
    IF y >= 1 /\ y <= 9999 /\ m >= 1 /\ m <= 12 /\ d >= 1 /\ d <= DaysIn(y, m)
    THEN [exc |-> "", date |-> DateVal(y, m, d)]
    ELSE [exc |-> "ValueError", date |-> NoneDate]

(***************************************************************************)
(* dateparser.parse, the third-party natural-language date parser.  What   *)
(* it makes of a string is the environment's choice dp, a function from    *)
(* the strings it is called with to outcomes: it raises, returns None or   *)
(* returns a date.  The outcome is taken to depend on the string alone,    *)
(* not on the DATE_ORDER it is tried under.                                *)
(***************************************************************************)
DpRaises == [exc |-> "Exception", date |-> NoneDate]
DpNone == [exc |-> "", date |-> NoneDate]
DpDates == {DateVal(2024, 3, 5), DateVal(1985, 7, 30)}
DpOutcomes == {DpRaises, DpNone} \cup {[exc |-> "", date |-> d] : d \in DpDates}

DateparserParse(dp, date_str) == dp[date_str]

(***************************************************************************)
(* DataExtractor._extract_date and _extract_date_from_entities             *)
(*                                                                         *)
(* The cascade is the ordered list of its attempts; the first one that     *)
(* yields a date ends it.  An attempt is [via, kind, s, order, y, m, d]:   *)
(* via is the strategy (1 entity-tagged, 2 keyword-scoped, 3 whole-text,   *)
(* 4 eight digits, 5 month abbreviation, 6 dotted two-digit year,          *)
(* 7 unscoped parse), kind "dp" a dateparser.parse(s) call under `order`,  *)
(* kind "date" a date(y, m, d) construction.                               *)
(***************************************************************************)
RECURSIVE FlatMap(_, _)
FlatMap(Op(_), s) ==
    IF Len(s) = 0 THEN <<>> ELSE Op(s[1]) \o FlatMap(Op, Tail(s))

DpAttempt(via, s, order) ==
    [via |-> via, kind |-> "dp", s |-> s, order |-> order, y |-> 0, m |-> 0, d |-> 0]
DateAttempt(via, y, m, d) ==
    [via |-> via, kind |-> "date", s |-> <<>>, order |-> "", y |-> y, m |-> m, d |-> d]

DateOrders == <<"DMY", "MDY", "YMD">>

\* for date_order in ['DMY', 'MDY', 'YMD']: dateparser.parse(date_str, ...)
OrderedAttempts(via, date_str) ==
    [i \in 1..Len(DateOrders) |-> DpAttempt(via, date_str, DateOrders[i])]

Sep == {"/", ".", "-"}

date_patterns ==
    << \* \b(\d{1,2}[/\.-]\d{1,2}[/\.-]\d{2,4})\b
       WB \o <<In(Digit, 1, 2), In(Sep, 1, 1), In(Digit, 1, 2), In(Sep, 1, 1),
               In(Digit, 2, 4)>> \o WB,
       \* \b(\d{4}[/\.-]\d{1,2}[/\.-]\d{1,2})\b
       WB \o <<In(Digit, 4, 4), In(Sep, 1, 1), In(Digit, 1, 2), In(Sep, 1, 1),
               In(Digit, 1, 2)>> \o WB,
       \* \b(\d{8})\b
       WB \o <<In(Digit, 8, 8)>> \o WB,
       \* \b(\d{1,2}\s+[A-Za-z]{3,9}\.?\s+\d{2,4})\b
       WB \o <<In(Digit, 1, 2), In(Space, 1, -1), In(Alpha, 3, 9), In({"."}, 0, 1),
               In(Space, 1, -1), In(Digit, 2, 4)>> \o WB,
       \* \b([A-Za-z]{3,9}\.?\s+\d{1,2},?\s+\d{2,4})\b
       WB \o <<In(Alpha, 3, 9), In({"."}, 0, 1), In(Space, 1, -1), In(Digit, 1, 2),
               In({","}, 0, 1), In(Space, 1, -1), In(Digit, 2, 4)>> \o WB,
       \* \b([A-Za-z]{3}\.?\s+[A-Za-z]{3}\.?\s+\d{2,4})\b
       WB \o <<In(Alpha, 3, 3), In({"."}, 0, 1), In(Space, 1, -1), In(Alpha, 3, 3),
               In({"."}, 0, 1), In(Space, 1, -1), In(Digit, 2, 4)>> \o WB,
       \* \b(\d{1,2}\.\d{1,2}\.\d{2,4})\b
       WB \o <<In(Digit, 1, 2), In({"."}, 1, 1), In(Digit, 1, 2), In({"."}, 1, 1),
               In(Digit, 2, 4)>> \o WB,
       \* \b(\d{1,2}-\d{1,2}-\d{2,4})\b
       WB \o <<In(Digit, 1, 2), In({"-"}, 1, 1), In(Digit, 1, 2), In({"-"}, 1, 1),
               In(Digit, 2, 4)>> \o WB,
       \* \b(\d{1,2}\s+\d{1,2}\s+\d{2,4})\b
       WB \o <<In(Digit, 1, 2), In(Space, 1, -1), In(Digit, 1, 2), In(Space, 1, -1),
               In(Digit, 2, 4)>> \o WB,
       \* \b(\d{4}\d{2}\d{2})\b
       WB \o <<In(Digit, 4, 4), In(Digit, 2, 2), In(Digit, 2, 2)>> \o WB,
       \* \b(\d{2}\d{2}\d{4})\b
       WB \o <<In(Digit, 2, 2), In(Digit, 2, 2), In(Digit, 4, 4)>> \o WB >>

date_keywords ==
    <<<<"d", "a", "t", "e">>,
      <<"i", "n", "v", "o", "i", "c", "e", " ", "d", "a", "t", "e">>,
      <<"i", "s", "s", "u", "e", " ", "d", "a", "t", "e">>,
      <<"d", "a", "t", "e", "d">>,
      <<"i", "n", "v", "o", "i", "c", "e">>,
      <<"i", "s", "s", "u", "e", "d">>,
      <<"d", "u", "e", " ", "d", "a", "t", "e">>,
      <<"b", "i", "l", "l", "i", "n", "g", " ", "d", "a", "t", "e">>,
      <<"t", "r", "a", "n", "s", "a", "c", "t", "i", "o", "n", " ", "d", "a", "t", "e">>,
      <<"d", "o", "c", "u", "m", "e", "n", "t", " ", "d", "a", "t", "e">>,
      <<"s", "t", "a", "t", "e", "m", "e", "n", "t", " ", "d", "a", "t", "e">>,
      <<"p", "o", "s", "t", "i", "n", "g", " ", "d", "a", "t", "e">>>>

\* the longest window of text read after a keyword
KeywordWindow == 50

\* (?i)<keyword>[:\s]*(.{0,50})
KeywordPattern(keyword) ==
    LitCI(keyword) \o <<In({":"} \cup Space, 0, -1), Out({"\n"}, 0, KeywordWindow)>>

\* every match of every date pattern in `scope`, pattern after pattern, each
\* tried under the three orders
PatternAttempts(via, scope) ==
    FlatMap(LAMBDA pattern :
              FlatMap(LAMBDA date_match :
                        OrderedAttempts(via, Group0(scope, date_match)),
                      FindIter(pattern, scope)),
            date_patterns)

\* keyword after keyword of the list, and for each its occurrences in the text
KeywordAttempts(text) ==
    FlatMap(LAMBDA keyword :
              FlatMap(LAMBDA match :
                        PatternAttempts(2, Group(text, match, Len(keyword) + 2,
                                                 Len(keyword) + 2)),
                      FindIter(KeywordPattern(keyword), text)),
            date_keywords)

\* (\d{4})(\d{2})(\d{2}) then (\d{2})(\d{2})(\d{4}), neither anchored by \b
YMD8 == <<In(Digit, 4, 4), In(Digit, 2, 2), In(Digit, 2, 2)>>
DMY8 == <<In(Digit, 2, 2), In(Digit, 2, 2), In(Digit, 4, 4)>>

\* date(year, month, day), then date(year, day, month) with day and month
\* swapped
BothReadings(via, year, month, day) ==
    <<DateAttempt(via, year, month, day), DateAttempt(via, year, day, month)>>

SpecialAttempts(text) ==
    FlatMap(LAMBDA match :
              <<DateAttempt(4, ToInt(Group(text, match, 1, 1)),
                            ToInt(Group(text, match, 2, 2)),
                            ToInt(Group(text, match, 3, 3)))>>,
            FindIter(YMD8, text))
    \o
    FlatMap(LAMBDA match :
              BothReadings(4, ToInt(Group(text, match, 3, 3)),
                           ToInt(Group(text, match, 2, 2)),
                           ToInt(Group(text, match, 1, 1))),
            FindIter(DMY8, text))

month_abbr ==
    <<<<"j", "a", "n">>,
      <<"f", "e", "b">>,
      <<"m", "a", "r">>,
      <<"a", "p", "r">>,
      <<"m", "a", "y">>,
      <<"j", "u", "n">>,
      <<"j", "u", "l">>,
      <<"a", "u", "g">>,
      <<"s", "e", "p">>,
      <<"o", "c", "t">>,
      <<"n", "o", "v">>,
      <<"d", "e", "c">>>>

\* (?i)<month>\S*\.?\s+(\d{1,2})\S*\.?\s+(\d{4})
MonthFirstPattern(month_name) ==
    LitCI(month_name)
      \o <<Out(Space, 0, -1), In({"."}, 0, 1), In(Space, 1, -1), In(Digit, 1, 2),
           Out(Space, 0, -1), In({"."}, 0, 1), In(Space, 1, -1), In(Digit, 4, 4)>>

\* (?i)(\d{1,2})\S*\.?\s+<month>\S*\.?\s+(\d{4})
DayFirstPattern(month_name) ==
    <<In(Digit, 1, 2), Out(Space, 0, -1), In({"."}, 0, 1), In(Space, 1, -1)>>
      \o LitCI(month_name)
      \o <<Out(Space, 0, -1), In({"."}, 0, 1), In(Space, 1, -1), In(Digit, 4, 4)>>

\* the matches of the month-first pattern of one month, then those of its
\* day-first pattern; n is the length of the month's name
OneMonthAttempts(text, month_num, month_name, n) ==
    FlatMap(LAMBDA match :
              <<DateAttempt(5, ToInt(Group(text, match, n + 8, n + 8)),
                            month_num,
                            ToInt(Group(text, match, n + 4, n + 4)))>>,
            FindIter(MonthFirstPattern(month_name), text))
    \o
    FlatMap(LAMBDA match :
              <<DateAttempt(5, ToInt(Group(text, match, n + 8, n + 8)),
                            month_num,
                            ToInt(Group(text, match, 1, 1)))>>,
            FindIter(DayFirstPattern(month_name), text))

MonthAttempts(text) ==
    FlatMap(LAMBDA month_num :
              OneMonthAttempts(text, month_num, month_abbr[month_num],
                               Len(month_abbr[month_num])),
            [i \in 1..Len(month_abbr) |-> i])

\* \b(\d{1,2})\.(\d{1,2})\.(\d{2})\b
dot_date_pattern ==
    WB \o <<In(Digit, 1, 2), In({"."}, 1, 1), In(Digit, 1, 2), In({"."}, 1, 1),
            In(Digit, 2, 2)>> \o WB

\* the two digits always read in the current century
PivotYearCurrentCentury(year_short, current_year) ==
    (current_year \div 100) * 100 + year_short

\* the pivot: int(f"{century}{year_short}"), and the century before when
\* that lies more than 20 years after the current year
PivotYear(year_short, current_year) ==
    IF (current_year \div 100) * 100 + year_short > current_year + 20
    THEN (current_year \div 100 - 1) * 100 + year_short
    ELSE (current_year \div 100) * 100 + year_short

DotAttempts(via, text, current_year) ==
    FlatMap(LAMBDA match :
              BothReadings(via,
                           PivotYear(ToInt(Group(text, match, 6, 6)), current_year),
                           ToInt(Group(text, match, 4, 4)),
                           ToInt(Group(text, match, 2, 2))),
            FindIter(dot_date_pattern, text))

\* entity.startswith(prefix)
StartsWith(s, prefix) ==
    Len(s) >= Len(prefix) /\ SubSeq(s, 1, Len(prefix)) = prefix

\* the value of a date entity: tried under the three orders, then as a
\* dotted date with a two-digit year
EntityValueAttempts(date_str, current_year) ==
    OrderedAttempts(1, date_str) \o DotAttempts(1, date_str, current_year)

EntityAttempts(entities, current_year) ==
    FlatMap(LAMBDA entity :
              IF StartsWith(entity, <<"i", "n", "v", "o", "i", "c", "e", "_", "d", "a", "t", "e", ":">>)
                 \/ StartsWith(entity, <<"d", "a", "t", "e", ":">>)
              THEN EntityValueAttempts(
                     Strip(SubSeq(entity, IndexOf(entity, ":", 1) + 1, Len(entity))),
                     current_year)
              ELSE <<>>,
            entities)

\* the cascade with the dotted two-digit-year strategy moved up, ahead of
\* the keyword-scoped scan
AttemptsDottedEarly(text, entities, current_year) ==
    EntityAttempts(entities, current_year)
      \o DotAttempts(6, text, current_year)
      \o KeywordAttempts(text)
      \o PatternAttempts(3, text)
      \o SpecialAttempts(text)
      \o MonthAttempts(text)
      \o <<DpAttempt(7, text, "")>>

\* the whole cascade, in the order the code runs it
Attempts(text, entities, current_year) ==
    EntityAttempts(entities, current_year)
      \o KeywordAttempts(text)
      \o PatternAttempts(3, text)
      \o SpecialAttempts(text)
      \o MonthAttempts(text)
      \o DotAttempts(6, text, current_year)
      \o <<DpAttempt(7, text, "")>>

\* the strings the cascade hands to dateparser.parse
DpStrings(as) == {as[i].s : i \in {j \in 1..Len(as) : as[j].kind = "dp"}}

DpCandidates(text, entities, current_year) ==
    DpStrings(Attempts(text, entities, current_year))

\* what one attempt comes to: [exc, date]
RunAttempt(a, dp) ==
    IF a.kind = "dp" THEN DateparserParse(dp, a.s) ELSE NewDate(a.y, a.m, a.d)

\* the except ValueError around the date constructions dropped
RecoveredParserOnly(a, exc) == a.kind = "dp"

\* the except clause around an attempt: `except Exception` around a
\* dateparser call, `except ValueError` around a date construction
Recovered(a, exc) == IF a.kind = "dp" THEN TRUE ELSE exc = "ValueError"

\* [exc, date, via, tried]: the first attempt that yields a date ends the
\* cascade; a failure that its except clause recovers moves on to the next;
\* tried counts the attempts made
RECURSIVE FirstDate(_, _, _)
RECURSIVE DateOr(_, _, _, _)
FirstDate(as, dp, i) ==
    IF i > Len(as) THEN [exc |-> "", date |-> NoneDate, via |-> 0, tried |-> i - 1]
    ELSE DateOr(as, dp, i, RunAttempt(as[i], dp))

\* r is what attempt i came to
DateOr(as, dp, i, r) ==
    IF r.exc # ""
    THEN IF Recovered(as[i], r.exc) THEN FirstDate(as, dp, i + 1)
         ELSE [exc |-> r.exc, date |-> NoneDate, via |-> as[i].via, tried |-> i]
    ELSE IF r.date.none THEN FirstDate(as, dp, i + 1)
    ELSE [exc |-> "", date |-> r.date, via |-> as[i].via, tried |-> i]

ExtractDate(text, entities, dp, current_year) ==
    FirstDate(Attempts(text, entities, current_year), dp, 1)

(***************************************************************************)
(* The input dicts.  A key that is absent holds Missing.                   *)
(*   ocr_result:   [filename, text, words: [has, val], tables,             *)
(*                  num_pages: [has, val]]                                 *)
(*   docai_result: [none, has_entities, entities, tables]; none says that  *)
(*                 no structured result was passed (None)                  *)
(***************************************************************************)
Missing == <<"Missing">>

\* d.get(key, default)
Get(v, default) == IF v = Missing THEN default ELSE v

\* a str that is neither None nor empty
TruthyStr(s) == s # NoneStr /\ Len(s) > 0

(***************************************************************************)
(* DataExtractor._is_invoice_valid                                         *)
(***************************************************************************)
\* Python values as `or` sees them: [t, s, b] with t the type
PyNone == [t |-> "NoneType", s |-> <<>>, b |-> FALSE]
PyStr(s) == IF s = NoneStr THEN PyNone ELSE [t |-> "str", s |-> s, b |-> FALSE]
PyDate(d) == IF d.none THEN PyNone ELSE [t |-> "date", s |-> <<>>, b |-> FALSE]
PyBool(b) == [t |-> "bool", s |-> <<>>, b |-> b]
PyDecimal(d) == IF d.none THEN PyNone ELSE [t |-> "Decimal", s |-> <<>>, b |-> d.num # 0]

\* bool(v): None and the empty str are false, a date is always true, a
\* Decimal is true unless it is zero
Truth(v) ==
    CASE v.t = "NoneType" -> FALSE
      [] v.t = "str" -> Len(v.s) > 0
      [] v.t = "date" -> TRUE
      [] OTHER -> v.b

\* a or b: a when a is true, else b
PyOr(a, b) == IF Truth(a) THEN a ELSE b

\* grand_total tested for truth instead of `is not None`
IsInvoiceValidTruthyTotal(invoice) ==
    PyOr(PyOr(PyOr(PyStr(invoice.invoice_number), PyStr(invoice.vendor.name)),
              PyDate(invoice.invoice_date)),
         PyDecimal(invoice.grand_total))

\* invoice_number or vendor.name or invoice_date or grand_total is not None
IsInvoiceValid(invoice) ==
    PyOr(PyOr(PyOr(PyStr(invoice.invoice_number), PyStr(invoice.vendor.name)),
              PyDate(invoice.invoice_date)),
         PyBool(~invoice.grand_total.none))

(***************************************************************************)
(* DataExtractor._extract_from_docai                                       *)
(***************************************************************************)
\* datetime.strptime(s, '%Y-%m-%d').date(): [exc, date]
ISODatePattern ==
    <<In(Digit, 4, 4), In({"-"}, 1, 1), In(Digit, 1, 2), In({"-"}, 1, 1),
      In(Digit, 1, 2)>>

StrptimeOf(s, e) ==
    IF e = NoEnds \/ e[Len(e)] # Len(s) + 1
    THEN [exc |-> "ValueError", date |-> NoneDate]
    ELSE NewDate(ToInt(SubSeq(s, 1, e[1] - 1)),
                 ToInt(SubSeq(s, e[2], e[3] - 1)),
                 ToInt(SubSeq(s, e[4], e[5] - 1)))

Strptime(s) ==
    IF s = NoneStr THEN [exc |-> "TypeError", date |-> NoneDate]
    ELSE StrptimeOf(s, MatchFrom(ISODatePattern, 1, s, 1))

\* try: self._parse_decimal(entities.get(key, '')) except: pass
Swallowed(d) == IF d.exc # "" THEN NoneDec ELSE d

EntityAmount(v, price) ==
    IF v = Missing THEN NoneDec ELSE Swallowed(ParseDecimal(v, price))

\* a result of an extraction: the exception it let through, or its Invoice
Raised(exc, filename) == [exc |-> exc, invoice |-> FilenameOnlyInvoice(filename)]
Returned(invoice) == [exc |-> "", invoice |-> invoice]

\* except ValueError: the date stays None
DocaiDate(parsed) ==
    IF parsed.exc = "ValueError" THEN [exc |-> "", date |-> NoneDate] ELSE parsed

\* the Invoice of the structured path with final_total read from
\* total_tax_amount
DocaiInvoiceFinalFromTax(filename, entities, invoice_date, rows, price) ==
    IF FirstExc(<<invoice_date.exc, rows.exc>>) # ""
    THEN Raised(FirstExc(<<invoice_date.exc, rows.exc>>), filename)
    ELSE Returned(Invoice(filename,
                          Get(entities.invoice_id, <<>>),
                          Vendor(Get(entities.supplier_name, <<>>),
                                 Address(Get(entities.supplier_address, <<>>),
                                         Get(entities.supplier_city, <<>>),
                                         Get(entities.supplier_state, <<>>),
                                         Get(entities.supplier_country, <<>>),
                                         Get(entities.supplier_zip, <<>>))),
                          invoice_date.date,
                          EntityAmount(entities.total_amount, price),
                          EntityAmount(entities.total_tax_amount, price),
                          EntityAmount(entities.total_tax_amount, price),
                          rows.items, 1))

\* the Invoice of the structured path, unless the date or a row let an
\* exception through
DocaiInvoice(filename, entities, invoice_date, rows, price) ==
    IF FirstExc(<<invoice_date.exc, rows.exc>>) # ""
    THEN Raised(FirstExc(<<invoice_date.exc, rows.exc>>), filename)
    ELSE Returned(Invoice(filename,
                          Get(entities.invoice_id, <<>>),
                          Vendor(Get(entities.supplier_name, <<>>),
                                 Address(Get(entities.supplier_address, <<>>),
                                         Get(entities.supplier_city, <<>>),
                                         Get(entities.supplier_state, <<>>),
                                         Get(entities.supplier_country, <<>>),
                                         Get(entities.supplier_zip, <<>>))),
                          invoice_date.date,
                          EntityAmount(entities.total_amount, price),
                          EntityAmount(entities.total_tax_amount, price),
                          EntityAmount(entities.total_amount, price),
                          rows.items, 1))

ExtractFromDocai(docai_result, filename, price) ==
    DocaiInvoice(filename, docai_result.entities,
                 IF docai_result.entities.invoice_date = Missing
                 THEN [exc |-> "", date |-> NoneDate]
                 ELSE DocaiDate(Strptime(docai_result.entities.invoice_date)),
                 DocaiItems(docai_result.tables, price), price)

(***************************************************************************)
(* DataExtractor._extract_from_gcv                                         *)
(*                                                                         *)
(* env is what the call finds outside the program: [dp, price, year], the  *)
(* behaviour of dateparser.parse and of Price.fromstring and the year of   *)
(* datetime.now().                                                         *)
(***************************************************************************)
\* the text the heuristics read: ocr_result['text'], or the words joined by
\* a blank when the text is empty or None and there is a 'words' key
HeuristicText(ocr_result) ==
    IF ~TruthyStr(Get(ocr_result.text, <<>>)) /\ ocr_result.words.has
    THEN Join(<<" ">>, ocr_result.words.val)
    ELSE Get(ocr_result.text, <<>>)

\* the Invoice of the heuristic path, unless an extractor let an exception
\* through
GcvInvoice(filename, invoice_number, vendor, invoice_date, totals, rows, pages) ==
    IF FirstExc(<<invoice_date.exc, totals.exc, rows.exc>>) # ""
    THEN Raised(FirstExc(<<invoice_date.exc, totals.exc, rows.exc>>), filename)
    ELSE Returned(Invoice(filename, invoice_number, vendor, invoice_date.date,
                          totals.grand_total, totals.taxes, totals.final_total,
                          rows.items, pages))

\* the extractors on the text; re.search on a text that is None raises
\* TypeError
HeuristicInvoice(text, ocr_result, filename, env) ==
    IF text = NoneStr THEN Raised("TypeError", filename)
    ELSE GcvInvoice(filename, ExtractInvoiceNumber(text), ExtractVendor(text),
                    ExtractDate(text, <<>>, env.dp, env.year),
                    ExtractTotals(text, env.price),
                    ExtractItems(ocr_result.tables, env.price),
                    IF ocr_result.num_pages.has THEN ocr_result.num_pages.val ELSE 1)

ExtractFromGcv(ocr_result, filename, env) ==
    HeuristicInvoice(HeuristicText(ocr_result), ocr_result, filename, env)

(***************************************************************************)
(* DataExtractor.extract_invoice_data and the module-level function of the *)
(* same name, which passes its arguments on                                *)
(***************************************************************************)
\* docai_result and 'entities' in docai_result
HasEntities(docai_result) == ~docai_result.none /\ docai_result.has_entities

\* the heuristic path run whether or not the candidate is valid, and its
\* findings filling the fields the candidate left empty
MergedOrHeuristic(has_entities, candidate, heuristic) ==
    IF has_entities /\ candidate.exc # "" THEN candidate
    ELSE IF has_entities /\ Truth(IsInvoiceValid(candidate.invoice))
            /\ heuristic.exc = ""
    THEN Returned([candidate.invoice EXCEPT
                     !.taxes = IF @.none THEN heuristic.invoice.taxes ELSE @,
                     !.items = IF Len(@) = 0 THEN heuristic.invoice.items ELSE @,
                     !.pages = heuristic.invoice.pages])
    ELSE heuristic

\* the candidate returned whenever there are entities, valid or not
CandidateOrHeuristicUnvalidated(has_entities, candidate, heuristic) ==
    IF has_entities THEN candidate ELSE heuristic

\* the candidate when there are entities and it is valid, else the outcome
\* of the heuristic path; an exception of either is the outcome
CandidateOrHeuristic(has_entities, candidate, heuristic) ==
    IF has_entities /\ candidate.exc # "" THEN candidate
    ELSE IF has_entities /\ Truth(IsInvoiceValid(candidate.invoice)) THEN candidate
    ELSE heuristic

ExtractInvoiceData(ocr_result, docai_result, env) ==
    CandidateOrHeuristic(HasEntities(docai_result),
                         ExtractFromDocai(docai_result, Get(ocr_result.filename, <<>>),
                                          env.price),
                         ExtractFromGcv(ocr_result, Get(ocr_result.filename, <<>>), env))

(***************************************************************************)
(* DataExtractor._extract_single_result                                    *)
(***************************************************************************)
NoDocai == [none |-> TRUE, has_entities |-> FALSE, entities |-> <<>>, tables |-> <<>>]

\* the try/except dropped: the document's exception leaves the task
Uncaught(r, filename) == r

\* except Exception: return Invoice(filename=...)
Caught(r, filename) ==
    IF r.exc # "" THEN Returned(FilenameOnlyInvoice(filename)) ELSE r

ExtractSingleResult(ocr_result, env) ==
    Caught(ExtractInvoiceData(ocr_result, NoDocai, env),
           Get(ocr_result.filename, <<>>))

(***************************************************************************)
(* The calls.  A specification draws a call and what it finds outside the  *)
(* program in Init; the action of the called function makes it return.     *)
(***************************************************************************)
\* every string over `alphabet` of length at most n
RECURSIVE StringsUpTo(_, _)
StringsUpTo(alphabet, n) ==
    IF n = 0 THEN {<<>>}
    ELSE LET shorter == StringsUpTo(alphabet, n - 1)
         IN shorter \cup {Append(s, c) : s \in shorter, c \in alphabet}

Idle == /\ prev = <<>>
        /\ tasks = <<>>
        /\ finished = <<>>
        /\ processing_tasks = <<>>
        /\ direct_results = <<>>
        /\ jobs = <<>>

(***************************************************************************)
(* _parse_decimal on its own                                               *)
(***************************************************************************)
MaxAmountLen == 3

AmountAlphabet == {"0", "1", ".", "-", ",", "$", " ", "N"}

AmountStrings ==
    StringsUpTo(AmountAlphabet, MaxAmountLen)
      \cup {NoneStr, <<"$", "1", ",", "2", "3", "4", ".", "5", "6">>, <<"1", "2", "3", "4">>,
            <<"N", "/", "A">>, <<"-", "5", "0", ".", "0", "0">>}

InitDecimal ==
    /\ pc = "call"
    /\ call \in {[fn |-> "_parse_decimal", amount_string |-> s, price |-> p] :
                   s \in AmountStrings, p \in PriceOutcomes}
    /\ ret = NoneDec
    /\ Idle

CallParseDecimal ==
    /\ pc = "call"
    /\ call.fn = "_parse_decimal"
    /\ ret' = ParseDecimal(call.amount_string, call.price)
    /\ pc' = "done"
    /\ UNCHANGED <<call, prev, tasks, finished, web>>

SpecDecimal == InitDecimal /\ [][CallParseDecimal]_vars

(***************************************************************************)
(* _extract_totals on its own                                              *)
(***************************************************************************)
MaxLines == 3

TotalsLines ==
    {<<"S", "u", "b", "t", "o", "t", "a", "l", ":", " ", "$", "1", "0", "0", ".", "0", "0">>,
     <<"S", "u", "b", "t", "o", "t", "a", "l", ":", " ", "$", "5", ".", "0", "0">>,
     <<"T", "a", "x", ":", " ", "$", "8", ".", "0", "0">>,
     <<"T", "o", "t", "a", "l", ":", " ", "$", "1", "0", "8", ".", "0", "0">>,
     <<"T", "o", "t", "a", "l", " ", "d", "u", "e">>,
     <<"I", "n", "v", "o", "i", "c", "e", " ", "#", ":", " ", "A", "B", "C", "-", "1", "2", "3", "4", "5">>}

\* every text of at most n lines of the set
RECURSIVE TextsOfLines(_, _)
TextsOfLines(lines, n) ==
    IF n = 0 THEN {<<>>}
    ELSE LET shorter == TextsOfLines(lines, n - 1)
         IN shorter \cup lines
              \cup {s \o <<"\n">> \o l : s \in shorter \ {<<>>}, l \in lines}

InitTotals ==
    /\ pc = "call"
    /\ call \in {[fn |-> "_extract_totals", text |-> s, price |-> p] :
                   s \in TextsOfLines(TotalsLines, MaxLines), p \in PriceOutcomes}
    /\ ret = [exc |-> "", grand_total |-> NoneDec, taxes |-> NoneDec,
              final_total |-> NoneDec]
    /\ Idle

CallExtractTotals ==
    /\ pc = "call"
    /\ call.fn = "_extract_totals"
    /\ ret' = ExtractTotals(call.text, call.price)
    /\ pc' = "done"
    /\ UNCHANGED <<call, prev, tasks, finished, web>>

SpecTotals == InitTotals /\ [][CallExtractTotals]_vars

(***************************************************************************)
(* _is_invoice_valid on its own                                            *)
(***************************************************************************)
SomeAddress ==
    Address(<<"1", "2", " ", "M", "a", "i", "n", " ", "S", "t">>, <<"S", "p", "r", "i", "n", "g", "f", "i", "e", "l", "d">>, <<"I", "L">>, <<>>,
            <<"6", "2", "7", "0", "4">>)

SomeItem ==
    InvoiceItem(<<"W", "i", "d", "g", "e", "t">>, IntVal(2), Dec(FALSE, 500, 2), Dec(FALSE, 1000, 2))

ValidityInvoices ==
    {Invoice(<<"a", ".", "p", "d", "f">>, number, Vendor(name, address), date, grand_total, taxes,
             final_total, items, 1) :
       number \in {NoneStr, <<>>, <<" ">>, <<"A", "1">>},
       name \in {<<>>, <<"A", "c", "m", "e">>},
       address \in {DefaultAddress, SomeAddress},
       date \in {NoneDate, DateVal(2024, 1, 5)},
       grand_total \in {NoneDec, Dec(FALSE, 0, 0), Dec(FALSE, 10000, 2)},
       taxes \in {NoneDec, Dec(FALSE, 800, 2)},
       final_total \in {NoneDec, Dec(FALSE, 10800, 2)},
       items \in {<<>>, <<SomeItem>>}}

InitValid ==
    /\ pc = "call"
    /\ call \in {[fn |-> "_is_invoice_valid", invoice |-> i] : i \in ValidityInvoices}
    /\ ret = PyNone
    /\ Idle

CallIsInvoiceValid ==
    /\ pc = "call"
    /\ call.fn = "_is_invoice_valid"
    /\ ret' = IsInvoiceValid(call.invoice)
    /\ pc' = "done"
    /\ UNCHANGED <<call, prev, tasks, finished, web>>

SpecValid == InitValid /\ [][CallIsInvoiceValid]_vars

(***************************************************************************)
(* _extract_date on its own                                                *)
(***************************************************************************)
MaxFragments == 1

DateFragments ==
    {<<"D", "a", "t", "e", ":", " ", "0", "1", ".", "0", "2", ".", "0", "5">>,
     <<"9", "9", "9", "9", "9", "9", "9", "9">>,
     <<"I", "N", "V", "1", "0", "1", "1", "1", "2", "1", "3", "X">>,
     <<"J", "a", "n", " ", "5", ",", " ", "2", "0", "2", "4">>,
     <<"3", "1", " ", "F", "e", "b", " ", "2", "0", "2", "4">>,
     <<"3", "1", ".", "0", "2", ".", "0", "5">>}

\* every text of at most n fragments of the set, a blank between them
RECURSIVE TextsOfFragments(_, _)
TextsOfFragments(fragments, n) ==
    IF n = 0 THEN {<<>>}
    ELSE LET shorter == TextsOfFragments(fragments, n - 1)
         IN shorter \cup fragments
              \cup {s \o <<" ">> \o f : s \in shorter \ {<<>>}, f \in fragments}

EntityLists ==
    {<<>>,
     <<<<"s", "u", "p", "p", "l", "i", "e", "r", ":", " ", "x">>, <<"d", "a", "t", "e", ":", " ", "0", "1", ".", "0", "2", ".", "4", "5">>>>}

\* the year of datetime.now()
CurrentYears == {2024}

\* every way dateparser.parse may treat the strings of one cascade
Parsers(text, entities, year) == [DpCandidates(text, entities, year) -> DpOutcomes]

InitDate ==
    /\ pc = "call"
    /\ \E text \in TextsOfFragments(DateFragments, MaxFragments),
          entities \in EntityLists, year \in CurrentYears :
         \E dp \in Parsers(text, entities, year) :
           call = [fn |-> "_extract_date", text |-> text, entities |-> entities,
                   dp |-> dp, year |-> year]
    /\ ret = [exc |-> "", date |-> NoneDate, via |-> 0, tried |-> 0]
    /\ Idle

CallExtractDate ==
    /\ pc = "call"
    /\ call.fn = "_extract_date"
    /\ ret' = ExtractDate(call.text, call.entities, call.dp, call.year)
    /\ pc' = "done"
    /\ UNCHANGED <<call, prev, tasks, finished, web>>

SpecDate == InitDate /\ [][CallExtractDate]_vars

(***************************************************************************)
(* _extract_vendor on its own                                              *)
(***************************************************************************)
MaxVendorLines == 5

\* an empty line, a name, a street, a city line
VendorLines ==
    {<<>>,
     <<"A", "c", "m", "e">>,
     <<"1", " ", "M", "a", "i", "n", " ", "S", "t">>,
     <<"S", "p", "r", "i", "n", "g", "f", "i", "e", "l", "d", ",", " ", "I", "L", " ", "6", "2", "7", "0", "4">>}

\* every text of 1 to MaxVendorLines of these lines
VendorTexts ==
    {Join(<<"\n">>, ls) : ls \in UNION {[1..n -> VendorLines] : n \in 1..MaxVendorLines}}

InitVendor ==
    /\ pc = "call"
    /\ call \in {[fn |-> "_extract_vendor", text |-> s] : s \in VendorTexts}
    /\ ret = [exc |-> "", vendor |-> Vendor(<<>>, DefaultAddress)]
    /\ Idle

CallExtractVendor ==
    /\ pc = "call"
    /\ call.fn = "_extract_vendor"
    /\ ret' = [exc |-> "", vendor |-> ExtractVendor(call.text)]
    /\ pc' = "done"
    /\ UNCHANGED <<call, prev, tasks, finished, web>>

SpecVendor == InitVendor /\ [][CallExtractVendor]_vars

(***************************************************************************)
(* _extract_date on texts with two date keywords, a date after each        *)
(***************************************************************************)
\* 'invoice' before 'date', 'date' before 'invoice', 'issued' on one line and
\* 'dated' on the next
KeywordTexts ==
    {<<"I", "n", "v", "o", "i", "c", "e", " ", "1", ".", "2", ".", "2", "4", " ", "D", "a", "t", "e", ":", " ", "3", ".", "4", ".", "2", "4">>,
     <<"D", "a", "t", "e", ":", " ", "3", ".", "4", ".", "2", "4", " ", "I", "n", "v", "o", "i", "c", "e", " ", "1", ".", "2", ".", "2", "4">>,
     <<"I", "s", "s", "u", "e", "d", " ", "1", ".", "2", ".", "2", "4", "\n", "D", "a", "t", "e", "d", " ", "3", ".", "4", ".", "2", "4">>}

InitKeywords ==
    /\ pc = "call"
    /\ \E text \in KeywordTexts, year \in CurrentYears :
         \E dp \in Parsers(text, <<>>, year) :
           call = [fn |-> "_extract_date", text |-> text, entities |-> <<>>,
                   dp |-> dp, year |-> year]
    /\ ret = [exc |-> "", date |-> NoneDate, via |-> 0, tried |-> 0]
    /\ Idle

SpecKeywords == InitKeywords /\ [][CallExtractDate]_vars

(***************************************************************************)
(* _extract_date on a dotted date with a two-digit year, in the text or in *)
(* a date entity, when dateparser makes nothing of it                      *)
(***************************************************************************)
\* the first and second number of the dotted date: both readings are dates,
\* only the day-first one, only the month-first one, neither
DottedPairs ==
    {<<<<"0", "1">>, <<"0", "2">>>>, <<<<"1", "3">>, <<"0", "2">>>>,
     <<<<"0", "2">>, <<"1", "3">>>>, <<<<"3", "1">>, <<"0", "2">>>>}

TwoDigits == {<<a, b>> : a \in Digit, b \in Digit}

\* the year of datetime.now(): one early in its century, two late in it
DottedYears == {2024, 2080, 2099}

DottedString(pair, yy) == pair[1] \o <<".">> \o pair[2] \o <<".">> \o yy

DateEntity(value) == <<<<"d", "a", "t", "e", ":", " ">> \o value>>

InitDotted ==
    /\ pc = "call"
    /\ \E pair \in DottedPairs, yy \in TwoDigits, year \in DottedYears, in_entity \in BOOLEAN :
         \E dp \in [DpCandidates(IF in_entity THEN <<>> ELSE DottedString(pair, yy),
                                 IF in_entity THEN DateEntity(DottedString(pair, yy)) ELSE <<>>,
                                 year) -> {DpNone, DpRaises}] :
           call = [fn |-> "_extract_date",
                   text |-> IF in_entity THEN <<>> ELSE DottedString(pair, yy),
                   entities |-> IF in_entity THEN DateEntity(DottedString(pair, yy)) ELSE <<>>,
                   dp |-> dp, year |-> year,
                   first |-> ToInt(pair[1]), second |-> ToInt(pair[2]), yy |-> ToInt(yy)]
    /\ ret = [exc |-> "", date |-> NoneDate, via |-> 0, tried |-> 0]
    /\ Idle

SpecDotted == InitDotted /\ [][CallExtractDate]_vars

(***************************************************************************)
(* extract_invoice_data, called once and then once more with another OCR   *)
(* result for the same file and the same structured result                 *)
(***************************************************************************)
NoWords == [has |-> FALSE, val |-> <<>>]
Words(ws) == [has |-> TRUE, val |-> ws]
NoPages == [has |-> FALSE, val |-> 1]
Pages(n) == [has |-> TRUE, val |-> n]

\* an OCR result dict; a 'tables' key that is absent reads as []
Ocr(filename, text, words, tables, num_pages) ==
    [filename |-> filename, text |-> text, words |-> words, tables |-> tables,
     num_pages |-> num_pages]

\* a structured result dict with an 'entities' key
Docai(entities, tables) ==
    [none |-> FALSE, has_entities |-> TRUE, entities |-> entities, tables |-> tables]

\* an entities dict with no key
NoEntities ==
    [invoice_id |-> Missing, supplier_name |-> Missing, supplier_address |-> Missing,
     supplier_city |-> Missing, supplier_state |-> Missing,
     supplier_country |-> Missing, supplier_zip |-> Missing,
     invoice_date |-> Missing, total_amount |-> Missing,
     total_tax_amount |-> Missing]

\* a structured result dict without an 'entities' key
DocaiWithoutEntities ==
    [none |-> FALSE, has_entities |-> FALSE, entities |-> NoEntities, tables |-> <<>>]

\* "Subtotal: $a", "Tax: $b" and "Total: $c", a line each
TotalsText(a, b, c) ==
    <<"S", "u", "b", "t", "o", "t", "a", "l", ":", " ", "$">> \o a \o <<"\n", "T", "a", "x", ":", " ", "$">> \o b \o <<"\n", "T", "o", "t", "a", "l", ":", " ", "$">> \o c

SubtotalAmounts == {<<"1", "0", "0", ".", "0", "0">>, <<"5", ".", "0", "0">>}
TaxAmounts == {<<"8", ".", "0", "0">>}
TotalAmounts == {<<"1", "0", "8", ".", "0", "0">>, <<"5", ".", "0", "0">>}

WidgetTable ==
    <<<<<<"I", "t", "e", "m">>, <<"Q", "t", "y">>, <<"P", "r", "i", "c", "e">>, <<"T", "o", "t", "a", "l">>>>,
      <<<<"W", "i", "d", "g", "e", "t">>, <<"2">>, <<"5", ".", "0", "0">>, <<"1", "0", ".", "0", "0">>>>>>

\* a table with a cell that is None
TableWithNoneCell ==
    <<<<<<"I", "t", "e", "m">>, <<"Q", "t", "y">>, <<"P", "r", "i", "c", "e">>, <<"T", "o", "t", "a", "l">>>>,
      <<<<"W", "i", "d", "g", "e", "t">>, NoneStr, <<"5", ".", "0", "0">>, <<"1", "0", ".", "0", "0">>>>>>

PipelineOcrs ==
    {Ocr(<<"a", ".", "p", "d", "f">>, TotalsText(a, b, c), NoWords, <<>>, NoPages) :
       a \in SubtotalAmounts, b \in TaxAmounts, c \in TotalAmounts}
      \cup
    {Ocr(<<"a", ".", "p", "d", "f">>, <<"A", "c", "m", "e", " ", "C", "o", "r", "p", "\n", "D", "a", "t", "e", ":", " ", "0", "1", ".", "0", "2", ".", "0", "5", "\n", "I", "n", "v", "o", "i", "c", "e", " ", "#", ":", " ", "A", "B", "C", "-", "1", "2", "3", "4", "5">>,
         NoWords, <<WidgetTable>>, Pages(3)),
     Ocr(<<"a", ".", "p", "d", "f">>, <<>>, Words(<<<<"T", "o", "t", "a", "l", ":">>, <<"$", "5", ".", "0", "0">>>>), <<>>, NoPages),
     Ocr(<<"a", ".", "p", "d", "f">>, NoneStr, NoWords, <<>>, NoPages),
     Ocr(<<"a", ".", "p", "d", "f">>, <<"J", "a", "n", " ", "5", ",", " ", "2", "0", "2", "4">>, NoWords, <<TableWithNoneCell>>, Pages(2)),
     Ocr(<<"a", ".", "p", "d", "f">>, <<>>, NoWords, <<>>, Pages(0)),
     Ocr(Missing, <<>>, NoWords, <<>>, NoPages)}

PipelineDocais ==
    {NoDocai,
     DocaiWithoutEntities,
     Docai([NoEntities EXCEPT !.invoice_id = <<>>], <<>>),
     Docai([NoEntities EXCEPT !.invoice_id = <<"I", "N", "V", "-", "7", "7">>,
                              !.supplier_name = <<"G", "l", "o", "b", "e", "x">>,
                              !.supplier_city = <<"S", "p", "r", "i", "n", "g", "f", "i", "e", "l", "d">>,
                              !.invoice_date = <<"2", "0", "2", "4", "-", "0", "1", "-", "0", "5">>,
                              !.total_amount = <<"4", "2", ".", "0", "0">>,
                              !.total_tax_amount = <<"2", ".", "0", "0">>],
           <<WidgetTable>>),
     Docai([NoEntities EXCEPT !.total_amount = <<"0", ".", "0", "0">>], <<>>),
     Docai([NoEntities EXCEPT !.invoice_id = <<"I", "N", "V", "-", "7", "7">>, !.invoice_date = NoneStr], <<>>),
     Docai([NoEntities EXCEPT !.invoice_date = <<"0", "5", "/", "0", "1", "/", "2", "0", "2", "4">>,
                              !.total_amount = <<"N", "/", "A">>], <<>>),
     Docai([NoEntities EXCEPT !.supplier_name = <<>>], <<TableWithNoneCell>>)}

\* the strings the heuristic path of some OCR result hands to dateparser
DpStringsOf(ocrs) ==
    UNION {DpCandidates(HeuristicText(o), <<>>, 2024) :
             o \in {x \in ocrs : HeuristicText(x) # NoneStr}}

\* dateparser.parse treating every string alike
DpConst(strings, outcome) == [date_str \in strings |-> outcome]

PipelinePrices == {"none", "positive", "raise"}

PipelineEnvs ==
    {[dp |-> DpConst(DpStringsOf(PipelineOcrs), outcome), price |-> price,
      year |-> 2024] :
       outcome \in {DpNone, DpRaises, [exc |-> "", date |-> DateVal(2024, 3, 5)]},
       price \in PipelinePrices}

InitPipeline ==
    /\ pc = "call"
    /\ call \in {[fn |-> "extract_invoice_data", ocr_result |-> o,
                  docai_result |-> d, env |-> e] :
                   o \in PipelineOcrs, d \in PipelineDocais, e \in PipelineEnvs}
    /\ ret = Returned(FilenameOnlyInvoice(<<>>))
    /\ Idle

CallExtractInvoiceData ==
    /\ pc = "call"
    /\ call.fn = "extract_invoice_data"
    /\ ret' = ExtractInvoiceData(call.ocr_result, call.docai_result, call.env)
    /\ pc' = "done"
    /\ UNCHANGED <<call, prev, tasks, finished, web>>

\* the next call: another OCR result, with the filename, the structured
\* result and the surroundings of the call before
CallExtractInvoiceDataAgain ==
    /\ pc = "done"
    /\ call.fn = "extract_invoice_data"
    /\ prev = <<>>
    /\ \E o \in PipelineOcrs \ {call.ocr_result} :
         /\ o.filename = call.ocr_result.filename
         /\ call' = [call EXCEPT !.ocr_result = o]
         /\ ret' = ExtractInvoiceData(o, call.docai_result, call.env)
    /\ prev' = <<[ocr_result |-> call.ocr_result, ret |-> ret]>>
    /\ UNCHANGED <<pc, tasks, finished, web>>

SpecPipeline ==
    InitPipeline /\ [][CallExtractInvoiceData \/ CallExtractInvoiceDataAgain]_vars

(***************************************************************************)
(* The line items on their own: _extract_items on the tables of an OCR     *)
(* result, _extract_from_docai on a structured result with these tables    *)
(* and no entity.  The cells are strings.                                  *)
(***************************************************************************)
MaxRows == 3

HeaderRow == <<<<"I", "t", "e", "m">>, <<"Q", "t", "y">>, <<"P", "r", "i", "c", "e">>, <<"T", "o", "t", "a", "l">>>>
WidgetRow == <<<<"W", "i", "d", "g", "e", "t">>, <<"2">>, <<"5", ".", "0", "0">>, <<"1", "0", ".", "0", "0">>>>

ItemRows ==
    {HeaderRow,
     WidgetRow,
     <<<<"S", "e", "r", "v", "i", "c", "e">>, <<" ">>, <<>>, <<>>>>,
     <<<<"S", "h", "o", "r", "t">>, <<"1">>, <<"2", ".", "0", "0">>>>,
     <<<<"B", "o", "l", "t">>, <<"1", "_", "0">>, <<"N", "/", "A">>, <<"1", ".", "0", "0">>, <<"e", "x", "t", "r", "a">>>>}

\* the tables of at most n rows
RowSeqs(rows, n) == UNION {[1..k -> rows] : k \in 0..n}

\* no table, one table of up to MaxRows rows, or two of fewer rows
ItemTables ==
    {<<>>} \cup {<<t>> : t \in RowSeqs(ItemRows, MaxRows)}
           \cup {<<t1, t2>> : t1 \in RowSeqs(ItemRows, MaxRows - 1),
                             t2 \in RowSeqs(ItemRows, MaxRows - 1)}

ItemPrices == {"none", "positive"}

InitItems ==
    /\ pc = "call"
    /\ call \in {[fn |-> fn, tables |-> tables, price |-> price] :
                   fn \in {"_extract_items", "_extract_from_docai"},
                   tables \in ItemTables, price \in ItemPrices}
    /\ ret = [exc |-> "", items |-> <<>>]
    /\ Idle

\* what the call made of the rows: [exc, items]
ItemsOfInvoice(r) == [exc |-> r.exc, items |-> r.invoice.items]

CallExtractItems ==
    /\ pc = "call"
    /\ call.fn = "_extract_items"
    /\ ret' = ExtractItems(call.tables, call.price)
    /\ pc' = "done"
    /\ UNCHANGED <<call, prev, tasks, finished, web>>

CallExtractFromDocai ==
    /\ pc = "call"
    /\ call.fn = "_extract_from_docai"
    /\ ret' = ItemsOfInvoice(ExtractFromDocai(Docai(NoEntities, call.tables),
                                              <<"a", ".", "p", "d", "f">>, call.price))
    /\ pc' = "done"
    /\ UNCHANGED <<call, prev, tasks, finished, web>>

SpecItems == InitItems /\ [][CallExtractItems \/ CallExtractFromDocai]_vars

(***************************************************************************)
(* _extract_from_docai on the amounts of the entities                      *)
(***************************************************************************)
\* values of an amount entity: no such key, None, empty, blank, amounts that
\* Decimal reads, and strings it does not
EntityAmounts ==
    {Missing, NoneStr, <<>>, <<" ">>,
     <<"4", "2", ".", "0", "0">>, <<"0", ".", "0", "0">>, <<"2", ".", "0", "0">>,
     <<"$", "1", ",", "2", "5", "0", ".", "5", "0">>, <<"-", "5">>,
     <<"N", "/", "A">>, <<"1", ".", "2", ".", "3">>, <<"1", "2", " ", "E", "U", "R", " ", "-">>}

InitDocaiTotals ==
    /\ pc = "call"
    /\ call \in {[fn |-> "_extract_from_docai",
                  docai_result |-> Docai([NoEntities EXCEPT !.total_amount = a,
                                                            !.total_tax_amount = b], <<>>),
                  price |-> p] :
                   a \in EntityAmounts, b \in EntityAmounts, p \in PriceOutcomes}
    /\ ret = Returned(FilenameOnlyInvoice(<<>>))
    /\ Idle

CallExtractFromDocaiTotals ==
    /\ pc = "call"
    /\ call.fn = "_extract_from_docai"
    /\ ret' = ExtractFromDocai(call.docai_result, <<"a", ".", "p", "d", "f">>, call.price)
    /\ pc' = "done"
    /\ UNCHANGED <<call, prev, tasks, finished, web>>

SpecDocaiTotals == InitDocaiTotals /\ [][CallExtractFromDocaiTotals]_vars

(***************************************************************************)
(* DataExtractor.extract_data: one task per document under asyncio.gather. *)
(*                                                                         *)
(* The event loop starts the tasks in the order gather was given them.  A  *)
(* task runs without interruption except at `await asyncio.to_thread(...)` *)
(* around a dateparser.parse call, where it waits for a worker thread; the *)
(* threads finish in any order.  tasks[i] is [pc, left, result]: pc is     *)
(* "pending", "waiting" or "done", left the thread calls still to come,    *)
(* result the outcome once done.  finished lists the tasks in the order    *)
(* they completed.                                                         *)
(***************************************************************************)
MaxBatch == 3

\* a document of a batch: its OCR result and what its extraction finds
\* outside the program
Document(ocr_result, outcome, price) ==
    [ocr_result |-> ocr_result,
     env |-> [dp |-> DpConst(DpStringsOf({ocr_result}), outcome), price |-> price,
              year |-> 2024]]

BatchDocuments ==
    {Document(Ocr(<<"a", ".", "p", "d", "f">>, <<"D", "a", "t", "e", ":", " ", "0", "1", ".", "0", "2", ".", "0", "5">>, NoWords, <<>>, NoPages),
              DpNone, "none"),
     Document(Ocr(<<"b", ".", "p", "d", "f">>, <<"J", "a", "n", " ", "5", ",", " ", "2", "0", "2", "4">>, NoWords, <<WidgetTable>>, Pages(2)),
              [exc |-> "", date |-> DateVal(2024, 1, 5)], "none"),
     Document(Ocr(<<"c", ".", "p", "d", "f">>, NoneStr, NoWords, <<>>, NoPages), DpNone, "none"),
     Document(Ocr(<<"d", ".", "p", "d", "f">>, <<"T", "o", "t", "a", "l", ":", " ", "$", "5", ".", "0", "0">>, NoWords, <<TableWithNoneCell>>, NoPages),
              DpRaises, "none")}

\* every list of at most n documents
RECURSIVE Batches(_, _)
Batches(documents, n) ==
    IF n = 0 THEN {<<>>}
    ELSE LET shorter == Batches(documents, n - 1)
         IN shorter \cup {Append(b, d) : b \in shorter, d \in documents}

\* how many dateparser.parse calls, each in a worker thread, the extraction
\* of the document makes: those of the date cascade up to its last attempt,
\* none when the heuristic path fails before it reaches the cascade
DpCallsUpTo(as, last) == Cardinality({i \in 1..last : as[i].kind = "dp"})

DpCalls(as, dp) == DpCallsUpTo(as, FirstDate(as, dp, 1).tried)

ThreadCalls(ocr_result, env) ==
    IF HeuristicText(ocr_result) = NoneStr THEN 0
    ELSE DpCalls(Attempts(HeuristicText(ocr_result), <<>>, env.year), env.dp)

Pending == [pc |-> "pending", left |-> 0, result |-> Returned(FilenameOnlyInvoice(<<>>))]

\* the results in the order of completion
GatherAsCompleted(ts, order) == [k \in 1..Len(order) |-> ts[order[k]].result.invoice]

\* asyncio.gather: the results in the order of the awaitables
Gather(ts, order) == [i \in 1..Len(ts) |-> ts[i].result.invoice]

Init ==
    /\ pc = "call"
    /\ call \in {[fn |-> "extract_data", ocr_results |-> b] :
                   b \in Batches(BatchDocuments, MaxBatch)}
    /\ ret = <<>>
    /\ Idle

\* extract_data creates the coroutines and awaits gather
ExtractData ==
    /\ pc = "call"
    /\ call.fn = "extract_data"
    /\ tasks' = [i \in 1..Len(call.ocr_results) |-> Pending]
    /\ pc' = "gather"
    /\ UNCHANGED <<call, ret, prev, finished, web>>

\* the outcome of task i
TaskResult(i) ==
    ExtractSingleResult(call.ocr_results[i].ocr_result, call.ocr_results[i].env)

\* task i after it has run up to its first wait, n thread calls ahead of
\* it, or to its end when it has none
Started(i, n) ==
    IF n = 0 THEN [pc |-> "done", left |-> 0, result |-> TaskResult(i)]
    ELSE [pc |-> "waiting", left |-> n, result |-> Pending.result]

\* the loop runs task i, the tasks before it having been started
TaskStart(i) ==
    /\ pc = "gather"
    /\ tasks[i].pc = "pending"
    /\ \A j \in 1..(i - 1) : tasks[j].pc # "pending"
    /\ tasks' = [tasks EXCEPT ![i] = Started(i, ThreadCalls(call.ocr_results[i].ocr_result,
                                                          call.ocr_results[i].env))]
    /\ finished' = IF tasks'[i].pc = "done" THEN Append(finished, i) ELSE finished
    /\ UNCHANGED <<pc, call, ret, prev, web>>

\* the thread task i waits for is through: the task runs on to its next
\* wait or to its end
TaskResume(i) ==
    /\ pc = "gather"
    /\ tasks[i].pc = "waiting"
    /\ IF tasks[i].left > 1
       THEN /\ tasks' = [tasks EXCEPT ![i].left = @ - 1]
            /\ finished' = finished
       ELSE /\ tasks' = [tasks EXCEPT ![i] = [pc |-> "done", left |-> 0,
                                              result |-> TaskResult(i)]]
            /\ finished' = Append(finished, i)
    /\ UNCHANGED <<pc, call, ret, prev, web>>

\* a task that ended with an exception
Failed(ts) == {i \in 1..Len(ts) : ts[i].pc = "done" /\ ts[i].result.exc # ""}

\* gather hands the list of results to extract_data once every task is done,
\* or the exception of a task as soon as one ends with it; extract_data
\* returns the list, or on an exception one filename-only Invoice a document
GatherReturns ==
    /\ pc = "gather"
    /\ \/ Failed(tasks) # {}
       \/ \A i \in 1..Len(tasks) : tasks[i].pc = "done"
    /\ ret' = IF Failed(tasks) # {}
              THEN [i \in 1..Len(call.ocr_results) |->
                      FilenameOnlyInvoice(Get(call.ocr_results[i].ocr_result.filename,
                                              <<>>))]
              ELSE Gather(tasks, finished)
    /\ pc' = "done"
    /\ UNCHANGED <<call, prev, tasks, finished, web>>

Next ==
    \/ ExtractData
    \/ \E i \in 1..Len(tasks) : TaskStart(i)
    \/ \E i \in 1..Len(tasks) : TaskResume(i)
    \/ GatherReturns

Spec == Init /\ [][Next]_vars

(***************************************************************************)
(* The batch with a failure no per-document handler contains.  The except  *)
(* clause of _extract_single_result is the only code of a task outside a   *)
(* try block: an exception raised while it logs the error and builds the   *)
(* filename-only Invoice (a MemoryError, say) leaves the task, and gather   *)
(* raises it into extract_data.                                            *)
(***************************************************************************)
\* task i has no thread call left to wait for: its next step ends it
AtEnd(i) ==
    \/ /\ tasks[i].pc = "pending"
       /\ \A j \in 1..(i - 1) : tasks[j].pc # "pending"
       /\ ThreadCalls(call.ocr_results[i].ocr_result, call.ocr_results[i].env) = 0
    \/ tasks[i].pc = "waiting" /\ tasks[i].left = 1

\* the extraction of document i raised, and so did the except clause that
\* caught it
TaskHandlerRaises(i) ==
    /\ pc = "gather"
    /\ AtEnd(i)
    /\ ExtractInvoiceData(call.ocr_results[i].ocr_result, NoDocai,
                          call.ocr_results[i].env).exc # ""
    /\ tasks' = [tasks EXCEPT ![i] = [pc |-> "done", left |-> 0,
                                      result |-> Raised("MemoryError", <<>>)]]
    /\ finished' = Append(finished, i)
    /\ UNCHANGED <<pc, call, ret, prev, web>>

NextOrFailure ==
    \/ Next
    \/ \E i \in 1..Len(tasks) : TaskHandlerRaises(i)

SpecBatchFailure == Init /\ [][NextOrFailure]_vars

(***************************************************************************)
(* The web layer (src/app/main.py): upload_files, the background tasks     *)
(* process_file_directly and process_multiple_files_directly, cancel_task. *)
(*                                                                         *)
(* One event loop runs the request handlers and the background tasks: a    *)
(* coroutine runs without interruption from one await to the next, so an   *)
(* action is the code between two awaits.  What file_handler, ocr_engine,  *)
(* the validator and the exporter do is outside these files: each call     *)
(* returns or raises, which is the environment's choice.  jobs[t] is       *)
(* [fn, n, step, idx, total, i, exc, cancelled]: the coroutine working on  *)
(* task t, the number of uploaded files, the await it is suspended at, the *)
(* files processed, the batches they gave, the batches OCR has done, the   *)
(* exception the coroutine ended with ("" when none), and whether          *)
(* cancel_task has ever stored Cancelled for the task.                     *)
(***************************************************************************)
MaxFiles == 2
MaxBatches == 2

\* str(uuid.uuid4())
TaskIds == {"t1", "t2"}

\* d[k] = v on a dict
Put(d, k, v) == [x \in DOMAIN d \cup {k} |-> IF x = k THEN v ELSE d[x]]

ProcessingStatus(status, progress) == [status |-> status, progress |-> progress]

Job(fn, n, step, cancelled) ==
    [fn |-> fn, n |-> n, step |-> step, idx |-> 0, total |-> 0, i |-> 0, exc |-> "",
     cancelled |-> cancelled]

\* the share of the loop alone, its base left out
IntProgressOfLoop(base, k, total, span) == (k * span) \div total

\* int(base + k / total * span)
IntProgress(base, k, total, span) == base + (k * span) \div total

\* the coroutine goes on to its next await with a new status
Proceed(t, status, job) ==
    /\ processing_tasks' = Put(processing_tasks, t, status)
    /\ jobs' = Put(jobs, t, job)
    /\ UNCHANGED <<direct_results, pc, call, ret, prev, tasks, finished>>

\* the except clause with the failure entry left out
FailUnrecorded(t, job) ==
    /\ processing_tasks' = Put(processing_tasks, t, ProcessingStatus("Failed", 100))
    /\ jobs' = Put(jobs, t, [job EXCEPT !.step = "raised", !.exc = "Exception"])
    /\ UNCHANGED <<direct_results, pc, call, ret, prev, tasks, finished>>

\* except Exception as e: the status Failed, the failure entry, raise
Fail(t, job) ==
    /\ processing_tasks' = Put(processing_tasks, t, ProcessingStatus("Failed", 100))
    /\ direct_results' = Put(direct_results, t, [status |-> "Failed"])
    /\ jobs' = Put(jobs, t, [job EXCEPT !.step = "raised", !.exc = "Exception"])
    /\ UNCHANGED <<pc, call, ret, prev, tasks, finished>>

\* from the end of the OCR loop to the await of the CSV export: progress
\* 60, validation, 80, 90, anomaly flags, the export rows; sync_ok says
\* that none of it raises
ToExport(t, job, sync_ok) ==
    IF sync_ok
    THEN Proceed(t, ProcessingStatus("Processing", 90), [job EXCEPT !.step = "csv"])
    ELSE Fail(t, job)

\* into the OCR loop, which awaits ocr_engine once per batch and is passed
\* over when there is no batch
ToOcr(t, status, job, sync_ok) ==
    IF job.total = 0 THEN ToExport(t, job, sync_ok)
    ELSE Proceed(t, status, [job EXCEPT !.step = "ocr"])

\* upload_files: a new task id, Queued, and the files being saved
UploadFiles(t) ==
    /\ t \notin DOMAIN processing_tasks
    /\ Proceed(t, ProcessingStatus("Queued", 0), Job("upload_files", 0, "saving", FALSE))

\* upload_files: the n files are saved, the background task is added, the
\* status is Processing
UploadSaved(t, n) ==
    /\ t \in DOMAIN jobs /\ jobs[t].step = "saving"
    /\ Proceed(t, ProcessingStatus("Processing", 0),
               Job(IF n = 1 THEN "process_file_directly"
                   ELSE "process_multiple_files_directly", n, "start", jobs[t].cancelled))

\* upload_files: a file of an unsupported type, or one that cannot be
\* saved: HTTPException, no background task
UploadRejected(t) ==
    /\ t \in DOMAIN jobs /\ jobs[t].step = "saving"
    /\ jobs' = Put(jobs, t, [jobs[t] EXCEPT !.step = "rejected"])
    /\ UNCHANGED <<processing_tasks, direct_results, pc, call, ret, prev, tasks, finished>>

\* the background task starts: Processing 0, await process_upload
JobStart(t) ==
    /\ t \in DOMAIN jobs /\ jobs[t].step = "start"
    /\ Proceed(t, ProcessingStatus("Processing", 0), [jobs[t] EXCEPT !.step = "upload"])

\* process_upload is through: it raised, or it gave b batches
UploadProcessed(t, ok, b, sync_ok) ==
    /\ t \in DOMAIN jobs /\ jobs[t].step = "upload"
    /\ IF ~ok THEN Fail(t, jobs[t])
       ELSE IF jobs[t].fn = "process_file_directly"
       THEN ToOcr(t, ProcessingStatus("Processing", 20),
                  [jobs[t] EXCEPT !.idx = 1, !.total = b], sync_ok)
       ELSE IF jobs[t].idx + 1 < jobs[t].n
       THEN Proceed(t, ProcessingStatus("Processing",
                                        IntProgress(0, jobs[t].idx + 1, jobs[t].n, 20)),
                    [jobs[t] EXCEPT !.idx = @ + 1, !.total = @ + b])
       ELSE ToOcr(t, ProcessingStatus("Processing",
                                      IntProgress(0, jobs[t].idx + 1, jobs[t].n, 20)),
                  [jobs[t] EXCEPT !.idx = @ + 1, !.total = @ + b], sync_ok)

\* ocr_engine.process_documents is through for one batch: it or
\* Invoice.parse_obj raised, or the batch is done
OcrProcessed(t, ok, sync_ok) ==
    /\ t \in DOMAIN jobs /\ jobs[t].step = "ocr"
    /\ IF ~ok THEN Fail(t, jobs[t])
       ELSE IF jobs[t].i + 1 < jobs[t].total
       THEN Proceed(t, ProcessingStatus("Processing",
                                        IntProgress(20, jobs[t].i + 1, jobs[t].total, 40)),
                    [jobs[t] EXCEPT !.i = @ + 1])
       ELSE ToExport(t, [jobs[t] EXCEPT !.i = @ + 1], sync_ok)

\* export_invoices(invoices, 'csv') is through
CsvExported(t, ok) ==
    /\ t \in DOMAIN jobs /\ jobs[t].step = "csv"
    /\ IF ok
       THEN /\ jobs' = Put(jobs, t, [jobs[t] EXCEPT !.step = "excel"])
            /\ UNCHANGED <<processing_tasks, direct_results, pc, call, ret, prev, tasks, finished>>
       ELSE Fail(t, jobs[t])

\* export_invoices(invoices, 'excel') is through; ok says that neither it
\* nor the writing of the two files raised: Completed, the result, return
ExcelExported(t, ok) ==
    /\ t \in DOMAIN jobs /\ jobs[t].step = "excel"
    /\ IF ok
       THEN /\ processing_tasks' = Put(processing_tasks, t, ProcessingStatus("Completed", 100))
            /\ direct_results' = Put(direct_results, t, [status |-> "Completed"])
            /\ jobs' = Put(jobs, t, [jobs[t] EXCEPT !.step = "returned"])
            /\ UNCHANGED <<pc, call, ret, prev, tasks, finished>>
       ELSE Fail(t, jobs[t])

\* cancel_task storing Cancelled whatever the status is
CancelTaskAnyStatus(t) ==
    /\ t \in DOMAIN processing_tasks
    /\ processing_tasks' = Put(processing_tasks, t, ProcessingStatus("Cancelled", 0))
    /\ jobs' = Put(jobs, t, [jobs[t] EXCEPT !.cancelled = TRUE])
    /\ UNCHANGED <<direct_results, pc, call, ret, prev, tasks, finished>>

\* cancel_task on a known task
CancelTask(t) ==
    /\ t \in DOMAIN processing_tasks
    /\ IF processing_tasks[t].status \in {"Queued", "Processing"}
       THEN /\ processing_tasks' = Put(processing_tasks, t, ProcessingStatus("Cancelled", 0))
            /\ jobs' = Put(jobs, t, [jobs[t] EXCEPT !.cancelled = TRUE])
       ELSE UNCHANGED <<processing_tasks, jobs>>
    /\ UNCHANGED <<direct_results, pc, call, ret, prev, tasks, finished>>

InitWeb ==
    /\ pc = "serve"
    /\ call = [fn |-> "app"]
    /\ ret = <<>>
    /\ Idle

NextWeb ==
    \/ \E t \in TaskIds : UploadFiles(t)
    \/ \E t \in TaskIds, n \in 1..MaxFiles : UploadSaved(t, n)
    \/ \E t \in TaskIds : UploadRejected(t)
    \/ \E t \in TaskIds : JobStart(t)
    \/ \E t \in TaskIds, ok \in BOOLEAN, b \in 0..MaxBatches, sync_ok \in BOOLEAN :
         UploadProcessed(t, ok, b, sync_ok)
    \/ \E t \in TaskIds, ok \in BOOLEAN, sync_ok \in BOOLEAN : OcrProcessed(t, ok, sync_ok)
    \/ \E t \in TaskIds, ok \in BOOLEAN : CsvExported(t, ok)
    \/ \E t \in TaskIds, ok \in BOOLEAN : ExcelExported(t, ok)
    \/ \E t \in TaskIds : CancelTask(t)

SpecWeb == InitWeb /\ [][NextWeb]_vars

(***************************************************************************)
(* The web layer with its result endpoints: download_results,              *)
(* get_validation_results and get_anomalies.  ret is the answer one of     *)
(* them has just given, with the status the task had at that moment (""    *)
(* for a task id that is not known), until it is sent.                     *)
(***************************************************************************)
Response(endpoint, t, code, detail) ==
    [endpoint |-> endpoint, task |-> t, code |-> code, detail |-> detail,
     at |-> IF t \in DOMAIN processing_tasks THEN processing_tasks[t].status ELSE ""]

NoResponse == [endpoint |-> "", task |-> "", code |-> 0, detail |-> "", at |-> ""]

\* the two checks every result endpoint starts with; 0 when both pass
NotReady(t) ==
    IF t \notin DOMAIN processing_tasks THEN 404
    ELSE IF t \notin DOMAIN direct_results THEN 400
    ELSE 0

NotReadyDetail(code) ==
    IF code = 404 THEN "Task not found" ELSE "Processing not completed"

Answer(response) ==
    /\ ret = NoResponse
    /\ ret' = response
    /\ UNCHANGED <<pc, call, prev, tasks, finished, web>>

\* the answer goes out to the client
ResponseSent ==
    /\ ret # NoResponse
    /\ ret' = NoResponse
    /\ UNCHANGED <<pc, call, prev, tasks, finished, web>>

Formats == {"csv", "excel", "pdf"}

\* download_results: exists says that the result file is on disk
DownloadResults(t, format, exists) ==
    Answer(IF NotReady(t) # 0
           THEN Response("download_results", t, NotReady(t), NotReadyDetail(NotReady(t)))
           ELSE IF format \notin {"csv", "excel"}
           THEN Response("download_results", t, 400, "Invalid format specified")
           ELSE IF ~exists
           THEN Response("download_results", t, 404, "Result file not found")
           ELSE Response("download_results", t, 200, format))

GetValidationResults(t) ==
    Answer(IF NotReady(t) # 0
           THEN Response("get_validation_results", t, NotReady(t), NotReadyDetail(NotReady(t)))
           ELSE Response("get_validation_results", t, 200, "validation_results"))

GetAnomalies(t) ==
    Answer(IF NotReady(t) # 0
           THEN Response("get_anomalies", t, NotReady(t), NotReadyDetail(NotReady(t)))
           ELSE Response("get_anomalies", t, 200, "anomalies"))

InitWebRequests ==
    /\ pc = "serve"
    /\ call = [fn |-> "app"]
    /\ ret = NoResponse
    /\ Idle

NextWebRequests ==
    \/ ret = NoResponse /\ NextWeb
    \/ ResponseSent
    \/ \E t \in TaskIds, format \in Formats, exists \in BOOLEAN : DownloadResults(t, format, exists)
    \/ \E t \in TaskIds : GetValidationResults(t)
    \/ \E t \in TaskIds : GetAnomalies(t)

SpecWebRequests == InitWebRequests /\ [][NextWebRequests]_vars

(***************************************************************************)
(* Properties                                                              *)
(***************************************************************************)
Returned_(fn) == pc = "done" /\ call.fn = fn

\* the filename of document i of the batch
FilenameOf(i) == Get(call.ocr_results[i].ocr_result.filename, <<>>)

\* C1: the list extract_data returns is as long as the list of OCR results
\* it was given, and its i-th Invoice carries the filename of the i-th OCR
\* result, in whatever order the tasks completed.
C1_ResultsInInputOrder ==
    Returned_("extract_data") =>
      /\ Len(ret) = Len(call.ocr_results)
      /\ \A i \in 1..Len(ret) : ret[i].filename = FilenameOf(i)

\* a batch of three files returned after its tasks completed in an order
\* that is not the order of the input: the first one last
C1_Witness ==
    /\ Returned_("extract_data")
    /\ Len(call.ocr_results) = 3
    /\ FilenameOf(1) # FilenameOf(2) /\ FilenameOf(2) # FilenameOf(3)
    /\ FilenameOf(1) # FilenameOf(3)
    /\ Len(finished) = 3 /\ finished[3] = 1
    /\ \A i \in 1..3 : ret[i].filename = FilenameOf(i)

\* what extract_invoice_data makes of document i alone
AloneOutcome(i) ==
    ExtractInvoiceData(call.ocr_results[i].ocr_result, NoDocai,
                       call.ocr_results[i].env)

\* C2: in a batch, a document whose extraction raises comes out as an
\* Invoice carrying only its filename, and every other document comes out
\* as the Invoice its extraction alone produces.
C2_FailureStaysWithItsDocument ==
    Returned_("extract_data") =>
      /\ Len(ret) = Len(call.ocr_results)
      /\ \A i \in 1..Len(call.ocr_results) :
           ret[i] = IF AloneOutcome(i).exc # "" THEN FilenameOnlyInvoice(FilenameOf(i))
                    ELSE AloneOutcome(i).invoice

\* a batch returned in which one document raised and another, which
\* completed after it, came out with the date its extraction found
C2_Witness ==
    /\ Returned_("extract_data")
    /\ \E i, j \in 1..Len(call.ocr_results) :
         /\ AloneOutcome(i).exc # ""
         /\ AloneOutcome(j).exc = ""
         /\ \E k, l \in 1..Len(finished) : k < l /\ finished[k] = i /\ finished[l] = j
         /\ ret[i] = FilenameOnlyInvoice(FilenameOf(i))
         /\ ~ret[j].invoice_date.none
         /\ ret[j] = AloneOutcome(j).invoice

\* the candidate the structured result of the call yields
CallCandidate ==
    ExtractFromDocai(call.docai_result, Get(call.ocr_result.filename, <<>>),
                     call.env.price)

\* the call has a structured result whose candidate passes _is_invoice_valid
CandidateValid ==
    /\ HasEntities(call.docai_result)
    /\ CallCandidate.exc = ""
    /\ Truth(IsInvoiceValid(CallCandidate.invoice))

\* what the heuristic path makes of the call's OCR result
CallHeuristic ==
    ExtractFromGcv(call.ocr_result, Get(call.ocr_result.filename, <<>>), call.env)

\* C3: extract_invoice_data always returns an Invoice: an exception raised
\* while the structured candidate is built or while the heuristic path runs
\* never reaches the caller, who gets an Invoice carrying only the filename.
C3_ExtractInvoiceDataNeverRaises ==
    Returned_("extract_invoice_data") =>
      /\ ret.exc = ""
      /\ ((HasEntities(call.docai_result) /\ CallCandidate.exc # "")
          \/ (~CandidateValid /\ CallHeuristic.exc # ""))
           => ret.invoice = FilenameOnlyInvoice(Get(call.ocr_result.filename, <<>>))

\* C4: when the structured result yields a valid candidate, the call returns
\* that candidate, and a call with the same structured result and filename
\* but another OCR result (text, words, tables, num_pages) returns the same
\* Invoice.
C4_ValidCandidateIgnoresOcr ==
    (Returned_("extract_invoice_data") /\ CandidateValid) =>
      /\ ret = CallCandidate
      /\ prev # <<>> => ret = prev[1].ret

\* two calls that differ in OCR text, tables and num_pages returned the one
\* valid candidate, line items of the structured result included
C4_Witness ==
    /\ Returned_("extract_invoice_data")
    /\ CandidateValid
    /\ prev # <<>>
    /\ prev[1].ocr_result.text # call.ocr_result.text
    /\ prev[1].ocr_result.tables # call.ocr_result.tables
    /\ prev[1].ocr_result.num_pages # call.ocr_result.num_pages
    /\ Len(ret.invoice.items) > 0
    /\ CallHeuristic.exc = "" /\ CallHeuristic # ret
    /\ ret = prev[1].ret

\* C5: without a structured result with entities, or with one whose
\* candidate fails _is_invoice_valid, extract_invoice_data comes to exactly
\* what the heuristic path makes of the OCR result.
C5_FallbackIsHeuristic ==
    (/\ Returned_("extract_invoice_data")
     /\ \/ ~HasEntities(call.docai_result)
        \/ (CallCandidate.exc = "" /\ ~Truth(IsInvoiceValid(CallCandidate.invoice))))
      => ret = CallHeuristic

\* a structured result with entities whose candidate is not valid (a date
\* that does not parse, an amount that yields nothing) gave way to the
\* heuristic Invoice, which has a total the structured result does not have
C5_Witness ==
    /\ Returned_("extract_invoice_data")
    /\ HasEntities(call.docai_result)
    /\ call.docai_result.entities.total_amount # Missing
    /\ CallCandidate.exc = ""
    /\ ~Truth(IsInvoiceValid(CallCandidate.invoice))
    /\ ret.exc = ""
    /\ ~ret.invoice.grand_total.none
    /\ ret = CallHeuristic

\* C7: on the heuristic path, a text of a "Subtotal: $A" line, a "Tax: $B"
\* line and a "Total: $C" line and no table gives grand_total = A,
\* taxes = B, final_total = C and items = [].
C7_SubtotalTaxTotal ==
    (Returned_("extract_invoice_data") /\ ~HasEntities(call.docai_result)) =>
      \A a \in SubtotalAmounts, b \in TaxAmounts, c \in TotalAmounts :
        (call.ocr_result.text = TotalsText(a, b, c) /\ call.ocr_result.tables = <<>>)
          => /\ ret.exc = ""
             /\ ret.invoice.grand_total = DecimalOf(a)
             /\ ret.invoice.taxes = DecimalOf(b)
             /\ ret.invoice.final_total = DecimalOf(c)
             /\ ret.invoice.items = <<>>

\* C6: _is_invoice_valid(invoice) is truthy exactly when invoice_number is a
\* non-empty string, or vendor.name is a non-empty string, or invoice_date
\* is present, or grand_total is present (a grand_total of zero included);
\* no other field of the invoice enters the condition.
C6_ValidIffMinimalEvidence ==
    Returned_("_is_invoice_valid") =>
      (Truth(ret) <=>
         \/ (call.invoice.invoice_number # NoneStr
             /\ Len(call.invoice.invoice_number) > 0)
         \/ (call.invoice.vendor.name # NoneStr /\ Len(call.invoice.vendor.name) > 0)
         \/ ~call.invoice.invoice_date.none
         \/ ~call.invoice.grand_total.none)

\* an invoice whose only evidence is a grand_total of zero, with taxes and
\* items set, was found valid
C6_Witness ==
    /\ Returned_("_is_invoice_valid")
    /\ ~TruthyStr(call.invoice.invoice_number)
    /\ ~TruthyStr(call.invoice.vendor.name)
    /\ call.invoice.invoice_date.none
    /\ ~call.invoice.grand_total.none /\ call.invoice.grand_total.num = 0
    /\ ~call.invoice.taxes.none
    /\ Len(call.invoice.items) > 0
    /\ Truth(ret)

\* the label stands in the text as a word of its own, followed by an amount
LabelWithAmount(label, text) == Search(WB \o TotalsPattern(label), text) # NoMatch

\* C8: in _extract_totals, a label (subtotal, tax, total) that occurs nowhere
\* in the text followed by an amount leaves its field (grand_total, taxes,
\* final_total) absent, whatever other labels are present; a text with a
\* "Subtotal" amount and no separate "Total" label has no final_total.
C8_AbsentLabelAbsentField ==
    Returned_("_extract_totals") =>
      /\ ~LabelWithAmount(SubtotalLabel, call.text) => ret.grand_total.none
      /\ ~LabelWithAmount(TaxLabel, call.text) => ret.taxes.none
      /\ ~LabelWithAmount(TotalLabel, call.text) => ret.final_total.none

\* the text has no digit, point or minus sign in a shape Decimal accepts,
\* and the currency-string parser raises or finds no amount in it
BothParsesFail(amount_string, price) ==
    /\ DecimalOf(Filter(amount_string, Digit \cup {".", "-"})).exc # ""
    /\ (PriceFromString(amount_string, price).exc # ""
        \/ PriceFromString(amount_string, price).none)

IsBlank(amount_string) ==
    amount_string = NoneStr \/ Len(Strip(amount_string)) = 0

\* C9: _parse_decimal never raises; it returns None for an empty or blank
\* input and when both the strip-and-parse attempt and the currency-string
\* fallback fail; a value it returns is negative only when the input has a
\* minus sign.
C9_ParseDecimalNeverRaises ==
    Returned_("_parse_decimal") =>
      /\ ret.exc = ""
      /\ IsBlank(call.amount_string) => ret.none
      /\ (~IsBlank(call.amount_string)
          /\ BothParsesFail(call.amount_string, call.price)) => ret.none
      /\ IsNegative(ret) => "-" \in Range(call.amount_string)

\* a non-blank input that Decimal rejects and on which the fallback raised
\* came back as None
C9_Witness ==
    /\ Returned_("_parse_decimal")
    /\ ~IsBlank(call.amount_string)
    /\ DecimalOf(Filter(call.amount_string, Digit \cup {".", "-"})).exc # ""
    /\ call.price = "raise"
    /\ ret = NoneDec

\* the attempts of the call's cascade
CallAttempts == Attempts(call.text, call.entities, call.year)

\* the attempt failed: it raised, or dateparser returned None
AttemptFails(a) ==
    LET r == RunAttempt(a, call.dp) IN r.exc # "" \/ r.date.none

\* C10: _extract_date never raises; it returns None whenever every strategy
\* of the cascade fails on the text; and a date it returns is one that some
\* attempt of the cascade parsed from the text or an entity value.
C10_ExtractDateAbsentOrParsed ==
    Returned_("_extract_date") =>
      LET as == CallAttempts
      IN /\ ret.exc = ""
         /\ (\A i \in 1..Len(as) : AttemptFails(as[i])) => ret.date.none
         /\ ~ret.date.none =>
              \E i \in 1..Len(as) :
                /\ ~AttemptFails(as[i])
                /\ RunAttempt(as[i], call.dp).date = ret.date

\* every attempt failed, a dateparser call by raising and a date
\* construction with a ValueError among them, and None came back
C10_Witness ==
    /\ Returned_("_extract_date")
    /\ ret.date.none /\ ret.exc = ""
    /\ LET as == CallAttempts
       IN /\ \A i \in 1..Len(as) : AttemptFails(as[i])
          /\ \E i \in 1..Len(as) :
               as[i].kind = "dp" /\ RunAttempt(as[i], call.dp).exc # ""
          /\ \E i \in 1..Len(as) :
               as[i].kind = "date" /\ RunAttempt(as[i], call.dp).exc = "ValueError"

\* C11: a date _extract_date builds itself with date(year, month, day) and
\* returns lies between 1990-01-01 and the current date plus one year: its
\* year is at least 1990 and at most the year after the current one.
C11_ReturnedDateInPlausibleRange ==
    (Returned_("_extract_date") /\ ~ret.date.none /\ ret.exc = "") =>
      (CallAttempts[ret.tried].kind = "date"
         => ret.date.y >= 1990 /\ ret.date.y <= call.year + 1)

\* C12: an Invoice extract_invoice_data returns has pages >= 1, also when
\* the OCR result reports a num_pages of zero or less.
C12_PagesPositive ==
    (Returned_("extract_invoice_data") /\ ret.exc = "") => ret.invoice.pages >= 1

\* the rows the path of the call takes as data, in table and row order
CallDataRows == DataRows(call.tables, call.fn = "_extract_items")

\* at least 4 cells, and a quantity cell that is blank or an integer literal
Qualifies(row) ==
    Len(row) >= 4 /\ (Len(Strip(row[2])) = 0 \/ IntOf(row[2]).exc = "")

\* the item a qualifying row stands for
ItemOfRow(row) ==
    InvoiceItem(row[1],
                IF Len(Strip(row[2])) = 0 THEN NoneInt ELSE IntVal(IntOf(row[2]).val),
                AmountCell(row[3], call.price),
                AmountCell(row[4], call.price))

\* C13: the items are exactly the data rows that qualify (at least 4 cells,
\* quantity blank or an integer literal), in table order and row order; a
\* row that fails to parse leaves no placeholder and takes no other row
\* with it.
C13_ItemsAreQualifyingRowsInOrder ==
    (Returned_("_extract_items") \/ Returned_("_extract_from_docai")) =>
      LET kept == SelectSeq(CallDataRows, Qualifies)
      IN /\ ret.exc = ""
         /\ ret.items = [k \in 1..Len(kept) |-> ItemOfRow(kept[k])]

\* a row that does not parse stood between two that do, and the two came
\* out as the only items, in their order
C13_Witness ==
    /\ Returned_("_extract_from_docai")
    /\ LET rows == CallDataRows
       IN /\ Len(rows) = 3
          /\ Qualifies(rows[1]) /\ ~Qualifies(rows[2]) /\ Qualifies(rows[3])
          /\ rows[1] # rows[3]
          /\ Len(rows[2]) >= 4
          /\ ret.items = <<ItemOfRow(rows[1]), ItemOfRow(rows[3])>>

\* the number of qualifying rows of the tables, the first row of each left
\* out when skip_first
RECURSIVE QualifyingRows(_, _)
QualifyingRows(tables, skip_first) ==
    IF Len(tables) = 0 THEN 0
    ELSE Cardinality({j \in (IF skip_first THEN 2 ELSE 1)..Len(tables[1]) :
                        Qualifies(tables[1][j])})
           + QualifyingRows(Tail(tables), skip_first)

\* C14: _extract_items skips the first row of every table and takes every
\* later row as data, so a one-row table gives no item; _extract_from_docai
\* takes every row as data, the first included; the table
\* [["Item","Qty","Price","Total"],["Widget","2","5.00","10.00"]] gives, on
\* the heuristic path, one item of quantity 2, unit price 5.00, total 10.00.
C14_HeaderSkippedOnHeuristicPathOnly ==
    /\ Returned_("_extract_items") =>
         /\ ret.exc = ""
         /\ Len(ret.items) = QualifyingRows(call.tables, TRUE)
         /\ (\A i \in 1..Len(call.tables) : Len(call.tables[i]) <= 1)
              => ret.items = <<>>
         /\ call.tables = <<<<HeaderRow, WidgetRow>>>> =>
              ret.items = <<InvoiceItem(<<"W", "i", "d", "g", "e", "t">>, IntVal(2),
                                        DecimalOf(<<"5", ".", "0", "0">>),
                                        DecimalOf(<<"1", "0", ".", "0", "0">>))>>
    /\ Returned_("_extract_from_docai") =>
         /\ ret.exc = ""
         /\ Len(ret.items) = QualifyingRows(call.tables, FALSE)
         /\ (Len(call.tables) > 0 /\ Len(call.tables[1]) > 0
               /\ Qualifies(call.tables[1][1]))
              => (Len(ret.items) > 0 /\ ret.items[1] = ItemOfRow(call.tables[1][1]))

\* the heuristic path read a header row and the Widget row and returned the
\* Widget item alone
C14_Witness ==
    /\ Returned_("_extract_items")
    /\ call.tables = <<<<HeaderRow, WidgetRow>>>>
    /\ Len(ret.items) = 1
    /\ ret.items[1].description = <<"W", "i", "d", "g", "e", "t">>
    /\ ret.items[1].quantity = IntVal(2)

\* C15: when an exception escapes the fan-out of extract_data (a task ended
\* with an exception of its own, which gather raises), extract_data does
\* not return a list of Invoices: the exception reaches its caller.
C15_BatchFailureSurfaced ==
    (call.fn = "extract_data" /\ Failed(tasks) # {}) => pc # "done"

\* C16: a background task (process_file_directly or
\* process_multiple_files_directly) in which a step raised has ended by
\* raising, its status is Failed and direct_results holds a failure entry
\* for its id; its status is not Completed.
C16_RaisedTaskIsFailed ==
    \A t \in DOMAIN jobs :
      jobs[t].exc # "" =>
        /\ jobs[t].step = "raised"
        /\ processing_tasks[t].status = "Failed"
        /\ t \in DOMAIN direct_results
        /\ direct_results[t].status = "Failed"

\* a task of several files whose OCR raised on its second batch: its status
\* is Failed and direct_results holds its failure entry
C16_Witness ==
    \E t \in DOMAIN jobs :
      /\ jobs[t].fn = "process_multiple_files_directly"
      /\ jobs[t].exc # "" /\ jobs[t].i = 1 /\ jobs[t].total >= 2
      /\ processing_tasks[t].status = "Failed"
      /\ t \in DOMAIN direct_results /\ direct_results[t].status = "Failed"

\* the attempts of strategy k on the call's input: 1 the entity-tagged
\* date, 2 the keyword-scoped scan, 3 the whole-text scan, 4 the eight-digit
\* shapes, 5 the month abbreviations, 6 the dotted two-digit year, 7 the
\* unscoped parse
StrategyAttempts(k) ==
    CASE k = 1 -> EntityAttempts(call.entities, call.year)
      [] k = 2 -> KeywordAttempts(call.text)
      [] k = 3 -> PatternAttempts(3, call.text)
      [] k = 4 -> SpecialAttempts(call.text)
      [] k = 5 -> MonthAttempts(call.text)
      [] k = 6 -> DotAttempts(6, call.text, call.year)
      [] k = 7 -> <<DpAttempt(7, call.text, "")>>

\* every attempt of the list fails
AllFail(as) == \A i \in 1..Len(as) : AttemptFails(as[i])

\* the date of the first attempt of the list that does not fail
FirstSuccess(as) ==
    LET first == CHOOSE i \in 1..Len(as) :
                   ~AttemptFails(as[i]) /\ \A j \in 1..(i - 1) : AttemptFails(as[j])
    IN RunAttempt(as[first], call.dp).date

\* C17: _extract_date runs its strategies in the order entity-tagged date,
\* keyword-scoped scan, whole-text scan, eight-digit shapes, month
\* abbreviations, dotted two-digit year, unscoped parse, and returns the
\* first success: the date of strategy k comes back only if every strategy
\* before k failed on the input.
C17_FirstStrategyWins ==
    Returned_("_extract_date") =>
      /\ ret.exc = ""
      /\ ret.date.none => \A k \in 1..7 : AllFail(StrategyAttempts(k))
      /\ ~ret.date.none =>
           /\ ret.via \in 1..7
           /\ \A k \in 1..(ret.via - 1) : AllFail(StrategyAttempts(k))
           /\ ~AllFail(StrategyAttempts(ret.via))
           /\ ret.date = FirstSuccess(StrategyAttempts(ret.via))

\* the dotted two-digit-year strategy gave the date after the keyword-scoped
\* and the whole-text scan had both made attempts that failed
C17_Witness ==
    /\ Returned_("_extract_date")
    /\ ~ret.date.none /\ ret.via = 6
    /\ Len(StrategyAttempts(2)) > 0 /\ AllFail(StrategyAttempts(2))
    /\ Len(StrategyAttempts(3)) > 0 /\ AllFail(StrategyAttempts(3))

\* the occurrences of the date keywords in the call's text: the keyword's
\* place in the list, where the occurrence starts, and the window after it
KeywordOccurrences ==
    UNION {LET matches == FindIter(KeywordPattern(date_keywords[k]), call.text)
           IN {[keyword |-> k, start |-> matches[i].start,
                window |-> Group(call.text, matches[i], Len(date_keywords[k]) + 2,
                                 Len(date_keywords[k]) + 2)] :
                 i \in 1..Len(matches)} :
             k \in 1..Len(date_keywords)}

\* the occurrences with a date in their window that parses
ParseableOccurrences ==
    {o \in KeywordOccurrences : ~AllFail(PatternAttempts(2, o.window))}

\* C18: when two different date keywords each have a date that parses in the
\* window after them, the keyword-scoped step returns the date that follows the
\* occurrence that comes first in the text, wherever the keywords stand in the
\* keyword list.
C18_EarliestKeywordOccurrenceWins ==
    (/\ Returned_("_extract_date")
     /\ ret.via = 2
     /\ \E o1, o2 \in ParseableOccurrences : o1.keyword # o2.keyword) =>
      \E o \in ParseableOccurrences :
        /\ \A other \in ParseableOccurrences : o.start <= other.start
        /\ ret.date = FirstSuccess(PatternAttempts(2, o.window))

\* the year the rule gives to the two digits of the call in the call's year
ExpandedYear ==
    IF (call.year \div 100) * 100 + call.yy > call.year + 20
    THEN (call.year \div 100 - 1) * 100 + call.yy
    ELSE (call.year \div 100) * 100 + call.yy

\* date(y, m, d) is a date
IsDate(y, m, d) == NewDate(y, m, d).exc = ""

\* C19: for a dotted date D.M.YY, in the text or in a date entity, and the
\* current year Y, the year is (Y div 100)*100 + YY unless that exceeds
\* Y + 20, and then (Y div 100 - 1)*100 + YY; it lies in [Y - 99, Y + 20], and
\* in [Y - 79, Y + 20] when Y is not in the last twenty years of its century;
\* with Y = 2024, "01.02.05" gives 2005; the day-first reading is tried
\* before the month-first one.
C19_PivotRule ==
    Returned_("_extract_date") =>
      /\ ret.exc = ""
      /\ ret.date.none <=>
           /\ ~IsDate(ExpandedYear, call.second, call.first)
           /\ ~IsDate(ExpandedYear, call.first, call.second)
      /\ ~ret.date.none =>
           /\ ret.date.y = ExpandedYear
           /\ ret.date.y >= call.year - 99 /\ ret.date.y <= call.year + 20
           /\ call.year % 100 <= 79 => ret.date.y >= call.year - 79
           /\ (call.year = 2024 /\ call.yy = 5) => ret.date.y = 2005
           /\ IF IsDate(ExpandedYear, call.second, call.first)
              THEN ret.date = DateVal(ExpandedYear, call.second, call.first)
              ELSE ret.date = DateVal(ExpandedYear, call.first, call.second)

\* "01.02.05" read in 2024: the first of February 2005
C19_Witness ==
    /\ Returned_("_extract_date")
    /\ call.year = 2024 /\ call.first = 1 /\ call.second = 2 /\ call.yy = 5
    /\ ret.date = DateVal(2005, 2, 1)

\* C19 as stated: the year given to a dotted date always lies in
\* [Y - 79, Y + 20]
C19_ExpandedYearWithin79 ==
    (Returned_("_extract_date") /\ ~ret.date.none) =>
      (ret.date.y >= call.year - 79 /\ ret.date.y <= call.year + 20)

\* the places of the non-empty lines of the call's text
NonEmptyLines ==
    {i \in 1..Len(SplitLines(call.text)) : SplitLines(call.text)[i] # <<>>}

\* C20: _extract_vendor returns as name the first non-empty line of the text,
\* leading blank lines skipped, and hands the up to three lines after that
\* line to the address extractor; a text with no non-empty line gives the
\* empty name, and nothing is raised.
C20_NameIsFirstNonEmptyLine ==
    Returned_("_extract_vendor") =>
      /\ ret.exc = ""
      /\ IF NonEmptyLines = {} THEN ret.vendor.name = <<>>
         ELSE LET lines == SplitLines(call.text)
                  first == CHOOSE i \in NonEmptyLines : \A j \in NonEmptyLines : i <= j
              IN /\ ret.vendor.name = lines[first]
                 /\ ret.vendor.address =
                      ExtractAddress(Join(<<"\n">>, Slice(lines, first, first + 3)))

\* C21: once cancel_task has set a task's status to Cancelled, the status
\* stays Cancelled: no step of the background task, whichever way it is
\* interleaved with the cancel request, writes Processing, Completed or
\* Failed over it.
C21_CancelledStaysCancelled ==
    [][\A t \in DOMAIN processing_tasks :
         (/\ processing_tasks[t].status = "Cancelled"
          /\ jobs[t].step \in {"start", "upload", "ocr", "csv", "excel"})
           => processing_tasks'[t].status = "Cancelled"]_vars

\* the task is Completed or Failed
Terminal(t) == processing_tasks[t].status \in {"Completed", "Failed"}

\* C22: a task id in direct_results is in processing_tasks with the status
\* Completed or Failed; so download_results, get_validation_results and
\* get_anomalies answer 400 "Processing not completed" for every known task
\* that is Queued or Processing; and Completed and Failed are absorbing:
\* no step, cancel_task included, changes the entry of such a task.
C22_ResultsOnlyForTerminalTasks ==
    /\ [](/\ \A t \in DOMAIN direct_results :
               t \in DOMAIN processing_tasks /\ Terminal(t)
          /\ ret.at \in {"Queued", "Processing"} =>
               (ret.code = 400 /\ ret.detail = "Processing not completed"))
    /\ [][\A t \in DOMAIN processing_tasks :
            Terminal(t) => processing_tasks'[t] = processing_tasks[t]]_vars

\* one task has its result, and an endpoint has just refused another that
\* is still Processing
C22_Witness ==
    /\ direct_results # <<>>
    /\ ret.endpoint # "" /\ ret.at = "Processing" /\ ret.code = 400
    /\ processing_tasks[ret.task].status = "Processing"

\* the tasks cancel_task has never stored Cancelled for
NeverCancelled == {t \in DOMAIN processing_tasks : ~jobs[t].cancelled}

\* C23: for a task that is never cancelled, the progress stored in
\* processing_tasks lies in 0..100, is 100 exactly when the status is
\* Completed or Failed, and never decreases from upload to the terminal
\* state, whatever the number of files and of batches, zero batches included.
C23_ProgressMonotone ==
    /\ [](\A t \in NeverCancelled :
            /\ processing_tasks[t].progress \in 0..100
            /\ processing_tasks[t].progress = 100 <=> Terminal(t))
    /\ [][\A t \in NeverCancelled :
            ~jobs'[t].cancelled =>
              processing_tasks'[t].progress >= processing_tasks[t].progress]_vars

\* a task of several files and several batches, never cancelled, Completed
C23_Witness ==
    \E t \in NeverCancelled :
      /\ processing_tasks[t] = ProcessingStatus("Completed", 100)
      /\ jobs[t].n > 1 /\ jobs[t].total > 1

\* what _parse_decimal makes of the entity of the call under `key`; None
\* when the key is absent or _parse_decimal raises
ParsedEntity(v) ==
    IF v = Missing THEN NoneDec
    ELSE IF ParseDecimal(v, call.price).exc # "" THEN NoneDec
    ELSE ParseDecimal(v, call.price)

\* C24: an Invoice built by _extract_from_docai has grand_total equal to
\* final_total: both are what _parse_decimal makes of total_amount when the
\* entities hold a total_amount that parses, and both are absent otherwise;
\* taxes comes from total_tax_amount alone.
C24_GrandTotalIsFinalTotal ==
    Returned_("_extract_from_docai") =>
      /\ ret.exc = ""
      /\ ret.invoice.grand_total = ret.invoice.final_total
      /\ ret.invoice.grand_total = ParsedEntity(call.docai_result.entities.total_amount)
      /\ ret.invoice.taxes = ParsedEntity(call.docai_result.entities.total_tax_amount)

\* a total that parses next to a tax that parses to another value: both
\* totals are the total's value, taxes is the tax's
C24_Witness ==
    /\ Returned_("_extract_from_docai")
    /\ ~ret.invoice.grand_total.none /\ ~ret.invoice.taxes.none
    /\ ret.invoice.grand_total = ret.invoice.final_total
    /\ ret.invoice.taxes # ret.invoice.grand_total

====
